---- MODULE Spec2Model ----
(***************************************************************************)
(* Financial analytics and forecasting engine of the KPI dashboard          *)
(* (src/src/financial_analyzer.py, src/src/data_loader.py,                  *)
(* src/src/forecasting.py).                                                 *)
(*                                                                          *)
(* Numbers are IEEE-like values over exact rationals: a value is a record   *)
(* [n, d]; d > 0 is the rational n/d in lowest terms, d = 0 is +inf (n = 1),*)
(* -inf (n = -1) or NaN (n = 0), as numpy arithmetic produces them without  *)
(* raising.  Binary rounding error and the sign of zero are not modelled.   *)
(***************************************************************************)
EXTENDS Integers, Sequences, FiniteSets, TLC

VARIABLES heap, op, result, pc, args, frame, elapsed, lib

vars == <<heap, op, result, pc, args, frame, elapsed, lib>>

(***************************************************************************)
(* Bounds of the model.                                                     *)
(***************************************************************************)
MaxLen == 3

MaxBudgetLen == 2

MaxHorizon == 2

MaxFitTicks == 2

CallerTimeout == 1

None == [none |-> TRUE]

(***************************************************************************)
(* numpy float64 arithmetic                                                 *)
(***************************************************************************)
Abs(i) == IF i < 0 THEN -i ELSE i

Sgn(i) == IF i < 0 THEN -1 ELSE IF i > 0 THEN 1 ELSE 0

RECURSIVE Gcd(_, _)
Gcd(a, b) == IF b = 0 THEN a ELSE Gcd(b, a % b)

Norm(n, d) ==
  LET s == IF d < 0 THEN -1 ELSE 1
      g == Gcd(Abs(n), Abs(d))
  IN  [n |-> (s * n) \div g, d |-> (s * d) \div g]

Num(i) == [n |-> i, d |-> 1]

Frac(n, d) == Norm(n, d)

NaN == [n |-> 0, d |-> 0]

Inf == [n |-> 1, d |-> 0]

NegInf == [n |-> -1, d |-> 0]

IsNaN(x) == x.d = 0 /\ x.n = 0

IsFinite(x) == x.d > 0

SignedInf(s) == IF s > 0 THEN Inf ELSE IF s < 0 THEN NegInf ELSE NaN

FAdd(a, b) ==
  IF IsNaN(a) \/ IsNaN(b) THEN NaN
  ELSE IF a.d = 0 /\ b.d = 0 THEN (IF a.n = b.n THEN a ELSE NaN)
  ELSE IF a.d = 0 THEN a
  ELSE IF b.d = 0 THEN b
  ELSE LET g == Gcd(a.d, b.d)
       IN  Norm(a.n * (b.d \div g) + b.n * (a.d \div g), (a.d \div g) * b.d)

FSub(a, b) == FAdd(a, [n |-> -b.n, d |-> b.d])

\* Finite products are reduced crosswise before multiplying.
FMul(a, b) ==
  IF IsNaN(a) \/ IsNaN(b) THEN NaN
  ELSE IF a.d = 0 \/ b.d = 0 THEN SignedInf(Sgn(a.n) * Sgn(b.n))
  ELSE IF a.n = 0 \/ b.n = 0 THEN Num(0)
  ELSE LET g1 == Gcd(Abs(a.n), b.d)
           g2 == Gcd(Abs(b.n), a.d)
       IN  [n |-> (a.n \div g1) * (b.n \div g2), d |-> (a.d \div g2) * (b.d \div g1)]

\* x / 0 is +-inf, 0 / 0 is NaN: numpy scalars and pandas columns warn and
\* go on, they do not raise ZeroDivisionError.
FDiv(a, b) ==
  IF IsNaN(a) \/ IsNaN(b) THEN NaN
  ELSE IF a.d = 0 /\ b.d = 0 THEN NaN
  ELSE IF a.d = 0 THEN SignedInf(a.n * (IF b.n < 0 THEN -1 ELSE 1))
  ELSE IF b.d = 0 THEN Num(0)
  ELSE IF b.n = 0 THEN SignedInf(Sgn(a.n))
  ELSE FMul(a, [n |-> Sgn(b.n) * b.d, d |-> Abs(b.n)])

\* Comparisons with NaN are False.
FLt(a, b) ==
  /\ ~IsNaN(a) /\ ~IsNaN(b)
  /\ IF a.d = 0 /\ b.d = 0 THEN a.n < b.n ELSE a.n * b.d < b.n * a.d

FLe(a, b) ==
  /\ ~IsNaN(a) /\ ~IsNaN(b)
  /\ IF a.d = 0 /\ b.d = 0 THEN a.n <= b.n ELSE a.n * b.d <= b.n * a.d

FGt(a, b) == FLt(b, a)

FGe(a, b) == FLe(b, a)

RECURSIVE FPow(_, _)
FPow(x, k) == IF k = 0 THEN Num(1) ELSE FMul(x, FPow(x, k - 1))

RECURSIVE Pow10(_)
Pow10(k) == IF k = 0 THEN 1 ELSE 10 * Pow10(k - 1)

\* Floor of the rational p/q, q > 0.
FloorDiv(p, q) == IF p >= 0 THEN p \div q ELSE -((-p + q - 1) \div q)

\* round(x, k): to k decimals, ties to even; inf and NaN stay as they are.
Round(x, k) ==
  IF x.d = 0 THEN x
  ELSE LET p == x.n * Pow10(k)
           f == FloorDiv(p, x.d)
           r == p - f * x.d
           up == 2 * r > x.d \/ (2 * r = x.d /\ f % 2 = 1)
       IN  Norm(IF up THEN f + 1 ELSE f, Pow10(k))

RECURSIVE FSum(_)
FSum(s) == IF s = <<>> THEN Num(0) ELSE FAdd(s[1], FSum(Tail(s)))

DropNaN(s) == SelectSeq(s, LAMBDA x : ~IsNaN(x))

\* Series.mean(): NaN entries are skipped; the mean of nothing is NaN.
Mean(s) ==
  LET v == DropNaN(s)
  IN  IF v = <<>> THEN NaN ELSE FDiv(FSum(v), Num(Len(v)))

\* Series.pct_change(): NaN for the first entry, x[i] / x[i-1] - 1 after it.
PctChange(s) ==
  [i \in 1..Len(s) |-> IF i = 1 THEN NaN ELSE FSub(FDiv(s[i], s[i - 1]), Num(1))]

Column(rows, c) == [i \in 1..Len(rows) |-> rows[i][c]]

(***************************************************************************)
(* Data model: a DataFrame is [cols, rows], rows a sequence of records over *)
(* cols.  A date is a day ordinal on a calendar of 31-day months:            *)
(* (year * 12 + month - 1) * 31 + day - 1; a month start is a multiple of   *)
(* 31.                                                                      *)
(***************************************************************************)
Frame(cols, rows) == [cols |-> cols, rows |-> rows]

NRows(df) == Len(df.rows)

Col(df, c) == Column(df.rows, c)

\* df[c] = vals on the object df refers to: the column is added or replaced.
WithColumn(df, c, vals) ==
  Frame(df.cols \cup {c}, [i \in 1..Len(df.rows) |-> (c :> vals[i]) @@ df.rows[i]])

\* df[[c1, c2]]: a new frame with the listed columns.
Project(df, cs) ==
  Frame(cs, [i \in 1..Len(df.rows) |-> [c \in cs |-> df.rows[i][c]]])

\* df[mask]: the rows whose mask entry is True.
RowsWhere(df, Test(_)) == Frame(df.cols, SelectSeq(df.rows, Test))

YearOf(date) == date \div (12 * 31)

MonthOf(date) == ((date \div 31) % 12) + 1

QuarterOf(date) == (((date \div 31) % 12) \div 3) + 1

\* date + pd.DateOffset(months=k): the same day of the k-th month after.
AddMonths(date, k) == date + 31 * k

\* Monthly flows of one period (income statement and revenue splits).
Flows ==
  { [revenue |-> 100, cogs |-> 60, gross_profit |-> 40, operating_expenses |-> 20,
     operating_income |-> 20, depreciation |-> 5, interest_expense |-> 4,
     net_income |-> 10, product_software |-> 50, product_services |-> 30,
     product_hardware |-> 20, region_north_america |-> 40, region_europe |-> 30,
     region_asia |-> 20, region_other |-> 10, customers_enterprise |-> 60,
     customers_smb |-> 30, customers_consumer |-> 10],
    [revenue |-> 110, cogs |-> 77, gross_profit |-> 33, operating_expenses |-> 44,
     operating_income |-> -11, depreciation |-> 5, interest_expense |-> 0,
     net_income |-> -20, product_software |-> 55, product_services |-> 33,
     product_hardware |-> 22, region_north_america |-> 44, region_europe |-> 33,
     region_asia |-> 22, region_other |-> 11, customers_enterprise |-> 66,
     customers_smb |-> 33, customers_consumer |-> 11],
    [revenue |-> 0, cogs |-> 0, gross_profit |-> 0, operating_expenses |-> 10,
     operating_income |-> -10, depreciation |-> 5, interest_expense |-> -1,
     net_income |-> 0, product_software |-> 0, product_services |-> 0,
     product_hardware |-> 0, region_north_america |-> 0, region_europe |-> 0,
     region_asia |-> 0, region_other |-> 0, customers_enterprise |-> 0,
     customers_smb |-> 0, customers_consumer |-> 0] }

\* Balance sheet of one period.
OrdinarySheet ==
  [total_assets |-> 1000, total_liabilities |-> 400, total_equity |-> 600,
   cash |-> 100, current_assets |-> 300, current_liabilities |-> 200,
   inventory |-> 50, accounts_receivable |-> 80, accounts_payable |-> 40,
   long_term_debt |-> 200]

Sheets ==
  { OrdinarySheet,
    [OrdinarySheet EXCEPT !.current_liabilities = 0, !.accounts_payable = 0],
    [OrdinarySheet EXCEPT !.current_assets = 0, !.current_liabilities = 0,
                          !.inventory = 0, !.cash = 0],
    [OrdinarySheet EXCEPT !.total_equity = 0, !.total_liabilities = 1000,
                          !.current_assets = 230, !.inventory = 0] }

FlowCols == DOMAIN (CHOOSE f \in Flows : TRUE)

SheetCols == DOMAIN OrdinarySheet

DerivedCols ==
  {"year", "month", "quarter", "gross_margin", "operating_margin", "net_margin",
   "ebitda", "ebitda_margin"}

LoadedCols == {"date"} \cup FlowCols \cup SheetCols \cup DerivedCols

Floats(rec) == [c \in DOMAIN rec |-> Num(rec[c])]

\* One row of the table load_financial_data returns: the raw facts plus the
\* calendar columns, the margins and EBITDA.
LoadedRow(date, flow, sheet) ==
  LET raw == Floats(flow) @@ Floats(sheet)
      margin(x) == Round(FMul(FDiv(x, raw.revenue), Num(100)), 2)
      ebitda == FAdd(raw.operating_income, raw.depreciation)
  IN  [date |-> date, year |-> YearOf(date), month |-> MonthOf(date),
       quarter |-> QuarterOf(date),
       gross_margin |-> margin(raw.gross_profit),
       operating_margin |-> margin(raw.operating_income),
       net_margin |-> margin(raw.net_income),
       ebitda |-> ebitda, ebitda_margin |-> margin(ebitda)] @@ raw

\* The first date of the generated tables (1 November 2020: a table of
\* three months spans two years).
StartMonths == {(2020 * 12 + 10) * 31}

\* The tables load_financial_data can return: consecutive months, ascending
\* (sort_values('date')), the balance sheet varying in the latest period.
LoadedTable(start, fl, sheet) ==
  Frame(LoadedCols,
        [i \in 1..Len(fl) |->
           LoadedRow(AddMonths(start, i - 1), fl[i],
                     IF i = Len(fl) THEN sheet ELSE OrdinarySheet)])

LoadedFramesOfLen(n) ==
  { LoadedTable(start, fl, sheet) :
      start \in StartMonths, sheet \in Sheets, fl \in [1..n -> Flows] }

Growing == CHOOSE f \in Flows : f.revenue = 100

Shrinking == CHOOSE f \in Flows : f.revenue = 110

\* The flows of a month k times as large.
Scaled(flow, k) == [c \in DOMAIN flow |-> k * flow[c]]

\* Further tables the file can hold: single months at four levels of
\* current assets; a single month with a revenue of 100,000 and a net margin
\* of 20 percent; sixteen months from October 2020 to January 2022 whose
\* annual revenue doubles every year (600, 1200, 2400); and two months dated
\* on the 30th instead of the 1st.
SampleFrames ==
  UNION { {LoadedTable(start, <<Growing>>, [OrdinarySheet EXCEPT !.current_assets = a]) :
             a \in {320, 240, 200, 100}}
          \cup {LoadedTable(start, <<[Scaled(Growing, 1000) EXCEPT !.net_income = 20000]>>,
                            OrdinarySheet),
                LoadedTable(AddMonths(start, -1),
                            [i \in 1..16 |-> IF i <= 3 THEN Scaled(Growing, 2)
                                             ELSE IF i <= 15 THEN Growing
                                             ELSE Scaled(Growing, 24)],
                            OrdinarySheet),
                LoadedTable(start + 29, <<Growing, Shrinking>>, OrdinarySheet)} :
          start \in StartMonths }

LoadedFrames == UNION {LoadedFramesOfLen(n) : n \in 0..MaxLen} \cup SampleFrames

\* A budgeted month, and a month whose budget figures are zero or missing
\* (an empty cell of the file is read as NaN).
BudgetFigures ==
  << [budget_revenue |-> Num(100), budget_net_income |-> Num(30),
      budget_operating_expenses |-> Num(20)],
     [budget_revenue |-> Num(0), budget_net_income |-> Num(0),
      budget_operating_expenses |-> NaN] >>

BudgetCols == {"date"} \cup DOMAIN BudgetFigures[1]

\* The tables load_budget_data can return.  The budget starts one month
\* after the actuals, so either table can have months the other lacks.
BudgetFramesOfLen(n) ==
  { Frame(BudgetCols,
          [i \in 1..n |-> [date |-> AddMonths(start, i)] @@ BudgetFigures[2 - (i % 2)]]) :
      start \in StartMonths }

BudgetFrames == UNION {BudgetFramesOfLen(n) : n \in 0..MaxBudgetLen}

(***************************************************************************)
(* Outcomes of a call, and the objects a call can reach.  heap maps the     *)
(* caller's two tables ("df", "budget_df") and the callee's working table   *)
(* ("local") to their current contents; an assignment df[c] = ... changes   *)
(* the object its reference names.                                          *)
(***************************************************************************)
Ok(v) == [kind |-> "ok", value |-> v]

Raise(e) == [kind |-> "raise", exc |-> e]

\* A call's effect: the objects after the call and what it returned.
Effect(h, out) == [heap |-> h, out |-> out]

\* CopyFrame without the copy: the callee works on the caller's object.
AliasFrame(h, r) == [heap |-> h, ref |-> r]

\* df.copy(): a new object with the same contents.
CopyFrame(h, r) == [heap |-> [h EXCEPT !["local"] = h[r]], ref |-> "local"]

\* A new object holding a computed table (merge, boolean indexing, agg).
NewFrame(h, df) == [heap |-> [h EXCEPT !["local"] = df], ref |-> "local"]

\* obj[c] = vals
SetColumn(h, r, c, vals) == [h EXCEPT ![r] = WithColumn(h[r], c, vals)]

\* The callee's locals die at return; the caller's objects stay.
AfterReturn(h) == [h EXCEPT !["local"] = None]

Last(s) == s[Len(s)]

(***************************************************************************)
(* src/src/financial_analyzer.py                                            *)
(***************************************************************************)
\* OutOfBounds off by one: iloc[-k] also raises on a table of exactly k rows.
OutOfBoundsOffByOne(df, k) == NRows(df) <= k

\* df.iloc[-k] raises IndexError when the table has fewer than k rows.
OutOfBounds(df, k) == NRows(df) < k

\* PeriodChange with the two periods swapped.
PeriodChangeInverted(latest, previous) ==
  FMul(FSub(FDiv(previous, latest), Num(1)), Num(100))

\* ((latest / previous) - 1) * 100
PeriodChange(latest, previous) ==
  FMul(FSub(FDiv(latest, previous), Num(1)), Num(100))

\* len(df) > 1
HasPrevious(df) == NRows(df) > 1

KpiChange(df, c) ==
  IF HasPrevious(df)
  THEN PeriodChange(Last(df.rows)[c], df.rows[NRows(df) - 1][c])
  ELSE Num(0)

CalculateKpis(df) ==
  IF OutOfBounds(df, 1) THEN Raise("IndexError")
  ELSE LET latest == Last(df.rows)
       IN  Ok([total_revenue |-> latest.revenue,
               revenue_change |-> KpiChange(df, "revenue"),
               gross_profit |-> latest.gross_profit,
               gross_margin |-> latest.gross_margin,
               operating_income |-> latest.operating_income,
               operating_margin |-> latest.operating_margin,
               net_income |-> latest.net_income,
               net_income_change |-> KpiChange(df, "net_income"),
               net_margin |-> latest.net_margin,
               ebitda |-> latest.ebitda,
               ebitda_margin |-> latest.ebitda_margin,
               total_assets |-> latest.total_assets,
               total_liabilities |-> latest.total_liabilities,
               total_equity |-> latest.total_equity,
               cash |-> latest.cash])

\* a / b on two numpy scalars of the latest row: never raises.
Ratio(a, b) == FDiv(a, b)

LiquidityRatios(latest) ==
  [current_ratio |-> Round(Ratio(latest.current_assets, latest.current_liabilities), 2),
   quick_ratio |->
     Round(Ratio(FSub(latest.current_assets, latest.inventory),
                 latest.current_liabilities), 2),
   cash_ratio |-> Round(Ratio(latest.cash, latest.current_liabilities), 2)]

CalculateLiquidityRatios(df) ==
  IF OutOfBounds(df, 1) THEN Raise("IndexError")
  ELSE Ok(LiquidityRatios(Last(df.rows)))

\* EfficiencyRatios with the cash conversion cycle added up from the
\* day-metrics as reported, already rounded.
EfficiencyRatiosOfReported(latest) ==
  LET asset_turnover == Ratio(FMul(latest.revenue, Num(12)), latest.total_assets)
      inventory_turnover == Ratio(FMul(latest.cogs, Num(12)), latest.inventory)
      receivables_turnover ==
        Ratio(FMul(latest.revenue, Num(12)), latest.accounts_receivable)
      dso == Round(Ratio(Num(365), receivables_turnover), 1)
      dio == Round(Ratio(Num(365), inventory_turnover), 1)
      payables_turnover == Ratio(FMul(latest.cogs, Num(12)), latest.accounts_payable)
      dpo == Round(Ratio(Num(365), payables_turnover), 1)
  IN  [asset_turnover |-> Round(asset_turnover, 2),
       inventory_turnover |-> Round(inventory_turnover, 2),
       receivables_turnover |-> Round(receivables_turnover, 2),
       dso |-> dso, dio |-> dio, dpo |-> dpo,
       cash_conversion_cycle |-> Round(FSub(FAdd(dso, dio), dpo), 1)]

EfficiencyRatios(latest) ==
  LET asset_turnover == Ratio(FMul(latest.revenue, Num(12)), latest.total_assets)
      inventory_turnover == Ratio(FMul(latest.cogs, Num(12)), latest.inventory)
      receivables_turnover ==
        Ratio(FMul(latest.revenue, Num(12)), latest.accounts_receivable)
      dso == Ratio(Num(365), receivables_turnover)
      dio == Ratio(Num(365), inventory_turnover)
      payables_turnover == Ratio(FMul(latest.cogs, Num(12)), latest.accounts_payable)
      dpo == Ratio(Num(365), payables_turnover)
      ccc == FSub(FAdd(dso, dio), dpo)
  IN  [asset_turnover |-> Round(asset_turnover, 2),
       inventory_turnover |-> Round(inventory_turnover, 2),
       receivables_turnover |-> Round(receivables_turnover, 2),
       dso |-> Round(dso, 1), dio |-> Round(dio, 1), dpo |-> Round(dpo, 1),
       cash_conversion_cycle |-> Round(ccc, 1)]

CalculateEfficiencyRatios(df) ==
  IF OutOfBounds(df, 1) THEN Raise("IndexError")
  ELSE Ok(EfficiencyRatios(Last(df.rows)))

\* InterestCoverage without the guard on interest_expense.
InterestCoverageUnguarded(latest) ==
  Ratio(latest.operating_income, latest.interest_expense)

\* InterestCoverage with unbounded coverage where there is no interest to
\* pay.
InterestCoverageOfNoDebt(latest) ==
  IF FGt(latest.interest_expense, Num(0))
  THEN Ratio(latest.operating_income, latest.interest_expense)
  ELSE Inf

\* operating_income / interest_expense if interest_expense > 0 else 0
InterestCoverage(latest) ==
  IF FGt(latest.interest_expense, Num(0))
  THEN Ratio(latest.operating_income, latest.interest_expense)
  ELSE Num(0)

LeverageRatios(latest) ==
  [debt_to_equity |-> Round(Ratio(latest.total_liabilities, latest.total_equity), 2),
   debt_ratio |-> Round(Ratio(latest.total_liabilities, latest.total_assets), 2),
   interest_coverage |-> Round(InterestCoverage(latest), 2),
   lt_debt_to_equity |-> Round(Ratio(latest.long_term_debt, latest.total_equity), 2)]

CalculateLeverageRatios(df) ==
  IF OutOfBounds(df, 1) THEN Raise("IndexError")
  ELSE Ok(LeverageRatios(Last(df.rows)))

ProfitabilityRatios(latest) ==
  LET annual(x) == FMul(x, Num(12))
      invested_capital == FAdd(latest.total_equity, latest.long_term_debt)
  IN  [roa |-> Round(FMul(Ratio(annual(latest.net_income), latest.total_assets),
                          Num(100)), 2),
       roe |-> Round(FMul(Ratio(annual(latest.net_income), latest.total_equity),
                          Num(100)), 2),
       roic |-> Round(FMul(Ratio(annual(latest.operating_income), invested_capital),
                           Num(100)), 2),
       gross_margin |-> latest.gross_margin,
       operating_margin |-> latest.operating_margin,
       net_margin |-> latest.net_margin]

CalculateProfitabilityRatios(df) ==
  IF OutOfBounds(df, 1) THEN Raise("IndexError")
  ELSE Ok(ProfitabilityRatios(Last(df.rows)))

\* The distinct values of a set of integers, ascending (groupby sorts its keys).
RECURSIVE Ascending(_)
Ascending(S) ==
  IF S = {} THEN <<>>
  ELSE LET m == CHOOSE x \in S : \A y \in S : x <= y
       IN  <<m>> \o Ascending(S \ {m})

GroupRows(df, key(_), k) == SelectSeq(df.rows, LAMBDA r : key(r) = k)

\* SumOf as the average of the column.
AverageOf(rows, c) == Mean(Column(rows, c))

\* Series.sum()
SumOf(rows, c) == FSum(Column(rows, c))

\* (a / b * 100).round(2) on two columns
MarginPct(a, b) == Round(FMul(FDiv(a, b), Num(100)), 2)

AnnualFlowCols == {"revenue", "gross_profit", "operating_income", "net_income", "ebitda"}

AnnualStockCols == {"total_assets", "total_equity", "cash"}

\* groupby('year').agg({... 'sum' ..., ... 'last' ...}).reset_index()
AnnualAgg(df) ==
  LET years == Ascending({r.year : r \in {df.rows[i] : i \in 1..NRows(df)}})
  IN  Frame({"year"} \cup AnnualFlowCols \cup AnnualStockCols,
            [j \in 1..Len(years) |->
               LET g == GroupRows(df, LAMBDA r : r.year, years[j])
               IN  [year |-> years[j]]
                   @@ [c \in AnnualFlowCols |-> SumOf(g, c)]
                   @@ [c \in AnnualStockCols |-> Last(g)[c]]])

\* ColumnRatio with 0 put where the denominator is 0 or missing.
ColumnRatioZeroFilled(df, a, b) ==
  [i \in 1..NRows(df) |->
     IF IsNaN(df.rows[i][b]) \/ df.rows[i][b] = Num(0) THEN Num(0)
     ELSE MarginPct(df.rows[i][a], df.rows[i][b])]

\* (df[a] / df[b] * 100).round(2)
ColumnRatio(df, a, b) ==
  [i \in 1..NRows(df) |-> MarginPct(df.rows[i][a], df.rows[i][b])]

\* GrowthPct with 0 for the first row.
GrowthPctZeroFirst(df, c) ==
  LET p == PctChange(Col(df, c))
  IN  [i \in 1..NRows(df) |-> IF i = 1 THEN Num(0) ELSE FMul(p[i], Num(100))]

\* annual[c].pct_change() * 100
GrowthPct(df, c) ==
  LET p == PctChange(Col(df, c))
  IN  [i \in 1..NRows(df) |-> FMul(p[i], Num(100))]

\* The assignments annual[...] = ... act on the aggregated table, a new object.
CalculateAnnualSummary(h, r) ==
  LET a == NewFrame(h, AnnualAgg(h[r]))
      h1 == SetColumn(a.heap, a.ref, "gross_margin",
                      ColumnRatio(a.heap[a.ref], "gross_profit", "revenue"))
      h2 == SetColumn(h1, a.ref, "operating_margin",
                      ColumnRatio(h1[a.ref], "operating_income", "revenue"))
      h3 == SetColumn(h2, a.ref, "net_margin",
                      ColumnRatio(h2[a.ref], "net_income", "revenue"))
      h4 == SetColumn(h3, a.ref, "revenue_growth", GrowthPct(h3[a.ref], "revenue"))
      h5 == SetColumn(h4, a.ref, "net_income_growth", GrowthPct(h4[a.ref], "net_income"))
  IN  Effect(h5, Ok(h5[a.ref]))

QuarterKey(r) == r.year * 4 + r.quarter - 1

\* groupby(['year', 'quarter']).agg({... 'sum' ...}).reset_index()
QuarterlyAgg(df) ==
  LET keys == Ascending({QuarterKey(r) : r \in {df.rows[i] : i \in 1..NRows(df)}})
  IN  Frame({"year", "quarter"} \cup AnnualFlowCols,
            [j \in 1..Len(keys) |->
               LET g == GroupRows(df, QuarterKey, keys[j])
               IN  [year |-> keys[j] \div 4, quarter |-> (keys[j] % 4) + 1]
                   @@ [c \in AnnualFlowCols |-> SumOf(g, c)]])

\* str(year) + ' Q' + str(quarter), kept as its two numbers.
PeriodLabel(df) == [i \in 1..NRows(df) |-> <<df.rows[i].year, "Q", df.rows[i].quarter>>]

CalculateQuarterlySummary(h, r) ==
  LET q == NewFrame(h, QuarterlyAgg(h[r]))
      h1 == SetColumn(q.heap, q.ref, "period", PeriodLabel(q.heap[q.ref]))
      h2 == SetColumn(h1, q.ref, "gross_margin",
                      ColumnRatio(h1[q.ref], "gross_profit", "revenue"))
      h3 == SetColumn(h2, q.ref, "net_margin",
                      ColumnRatio(h2[q.ref], "net_income", "revenue"))
  IN  Effect(h3, Ok(h3[q.ref]))

ProductCols == {"product_software", "product_services", "product_hardware"}

RegionCols == {"region_north_america", "region_europe", "region_asia", "region_other"}

CustomerCols == {"customers_enterprise", "customers_smb", "customers_consumer"}

\* {'value': latest[c], 'pct': latest[c] / total_revenue * 100}
Share(latest, c) ==
  [value |-> latest[c], pct |-> FMul(Ratio(latest[c], latest.revenue), Num(100))]

CalculateRevenueBreakdown(df) ==
  IF OutOfBounds(df, 1) THEN Raise("IndexError")
  ELSE LET latest == Last(df.rows)
       IN  Ok([by_product |-> [c \in ProductCols |-> Share(latest, c)],
               by_region |-> [c \in RegionCols |-> Share(latest, c)],
               by_customer |-> [c \in CustomerCols |-> Share(latest, c)]])

\* StatusAtLeast with > for >=: a value on a threshold falls a grade.
StatusAbove(v, good, warn) ==
  IF FGt(v, good) THEN "Good" ELSE IF FGt(v, warn) THEN "Warning" ELSE "Critical"

\* 'Good' if v >= good else ('Warning' if v >= warn else 'Critical')
StatusAtLeast(v, good, warn) ==
  IF FGe(v, good) THEN "Good" ELSE IF FGe(v, warn) THEN "Warning" ELSE "Critical"

\* StatusAtMost read the wrong way round: the higher the better.
StatusAtMostInverted(v, good, warn) ==
  IF FGe(v, good) THEN "Good" ELSE IF FGe(v, warn) THEN "Warning" ELSE "Critical"

\* 'Good' if v <= good else ('Warning' if v <= warn else 'Critical')
StatusAtMost(v, good, warn) ==
  IF FLe(v, good) THEN "Good" ELSE IF FLe(v, warn) THEN "Warning" ELSE "Critical"

Indicator(metric, value, status, benchmark) ==
  [metric |-> metric, value |-> value, status |-> status, benchmark |-> benchmark]

HealthIndicators(latest) ==
  LET liquidity == LiquidityRatios(latest)
      leverage == LeverageRatios(latest)
      profitability == ProfitabilityRatios(latest)
      cr == liquidity.current_ratio
      qr == liquidity.quick_ratio
      de == leverage.debt_to_equity
      ic == leverage.interest_coverage
      roe == profitability.roe
      nm == profitability.net_margin
  IN  << Indicator("Current Ratio", cr, StatusAtLeast(cr, Frac(3, 2), Num(1)), ">= 1.5"),
         Indicator("Quick Ratio", qr, StatusAtLeast(qr, Num(1), Frac(7, 10)), ">= 1.0"),
         Indicator("Debt to Equity", de, StatusAtMost(de, Num(1), Num(2)), "<= 1.0"),
         Indicator("Interest Coverage", ic, StatusAtLeast(ic, Num(3), Frac(3, 2)),
                   ">= 3.0"),
         Indicator("Return on Equity", roe, StatusAtLeast(roe, Num(15), Num(10)),
                   ">= 15%"),
         Indicator("Net Profit Margin", nm, StatusAtLeast(nm, Num(15), Num(10)),
                   ">= 15%") >>

GetHealthIndicators(df) ==
  IF OutOfBounds(df, 1) THEN Raise("IndexError")
  ELSE Ok(HealthIndicators(Last(df.rows)))

(***************************************************************************)
(* src/src/data_loader.py                                                   *)
(***************************************************************************)
\* InnerJoin as a left join: every row of the actual table is kept, the
\* budget columns are NaN where the budget has no such date.
LeftJoin(a, b) ==
  LET hit(r) == \E j \in 1..NRows(b) : b.rows[j].date = r.date
      match(r) == IF hit(r)
                  THEN b.rows[CHOOSE j \in 1..NRows(b) : b.rows[j].date = r.date]
                  ELSE [c \in b.cols \ {"date"} |-> NaN]
  IN  Frame(a.cols \cup b.cols, [i \in 1..NRows(a) |-> a.rows[i] @@ match(a.rows[i])])

\* actual_df.merge(budget_df, on='date'): one row per date found in both
\* tables, in the order of the actual table, with the columns of both.
InnerJoin(a, b) ==
  LET hit(r) == \E j \in 1..NRows(b) : b.rows[j].date = r.date
      match(r) == b.rows[CHOOSE j \in 1..NRows(b) : b.rows[j].date = r.date]
      kept == SelectSeq(a.rows, hit)
  IN  Frame(a.cols \cup b.cols, [i \in 1..Len(kept) |-> kept[i] @@ match(kept[i])])

\* ColumnDiff with the operands swapped: budget - actual.
ColumnDiffReversed(df, a, b) ==
  [i \in 1..NRows(df) |-> FSub(df.rows[i][b], df.rows[i][a])]

\* merged[a] - merged[b]
ColumnDiff(df, a, b) == [i \in 1..NRows(df) |-> FSub(df.rows[i][a], df.rows[i][b])]

VarianceCols ==
  << <<"revenue", "budget_revenue", "revenue_variance", "revenue_variance_pct">>,
     <<"net_income", "budget_net_income", "net_income_variance",
       "net_income_variance_pct">>,
     <<"operating_expenses", "budget_operating_expenses", "opex_variance",
       "opex_variance_pct">> >>

\* merged[v] = merged[actual] - merged[budget]
\* merged[p] = (merged[v] / merged[budget] * 100).round(2)
SetVariance(h, m, v) ==
  LET h1 == SetColumn(h, m, v[3], ColumnDiff(h[m], v[1], v[2]))
  IN  SetColumn(h1, m, v[4], ColumnRatio(h1[m], v[3], v[2]))

MergeActualBudget(h, actual, budget) ==
  LET m == NewFrame(h, InnerJoin(h[actual], h[budget]))
      h1 == SetVariance(m.heap, m.ref, VarianceCols[1])
      h2 == SetVariance(h1, m.ref, VarianceCols[2])
      h3 == SetVariance(h2, m.ref, VarianceCols[3])
  IN  Effect(h3, Ok(h3[m.ref]))

\* year and quarter are None (0 here: "if year:" skips both) or a number.
FilterByPeriod(h, r, year, quarter) ==
  LET c == CopyFrame(h, r)
      byYear == IF year # 0
                THEN NewFrame(c.heap, RowsWhere(c.heap[c.ref], LAMBDA x : x.year = year))
                ELSE c
      byQuarter == IF quarter # 0
                   THEN NewFrame(byYear.heap,
                                 RowsWhere(byYear.heap[byYear.ref],
                                           LAMBDA x : x.quarter = quarter))
                   ELSE byYear
  IN  Effect(byQuarter.heap, Ok(byQuarter.heap[byQuarter.ref]))

EmptyMap == [c \in {} |-> NaN]

\* GetPeriodComparison with "and" for "or": the empty result only when both
\* years have no periods.
GetPeriodComparisonBothMissing(df, current_year, previous_year) ==
  LET current == RowsWhere(df, LAMBDA x : x.year = current_year).rows
      previous == RowsWhere(df, LAMBDA x : x.year = previous_year).rows
  IN  IF current = <<>> /\ previous = <<>> THEN Ok(EmptyMap)
      ELSE Ok([current_revenue |-> SumOf(current, "revenue"),
               previous_revenue |-> SumOf(previous, "revenue")])

\* GetPeriodComparison with each year's gross margin taken as the average of
\* its monthly margins.
GetPeriodComparisonAveraged(df, current_year, previous_year) ==
  LET current == RowsWhere(df, LAMBDA x : x.year = current_year).rows
      previous == RowsWhere(df, LAMBDA x : x.year = previous_year).rows
      growth(c) == FMul(FSub(FDiv(SumOf(current, c), SumOf(previous, c)), Num(1)),
                        Num(100))
  IN  IF current = <<>> \/ previous = <<>> THEN Ok(EmptyMap)
      ELSE Ok([current_revenue |-> SumOf(current, "revenue"),
               previous_revenue |-> SumOf(previous, "revenue"),
               revenue_growth |-> growth("revenue"),
               current_net_income |-> SumOf(current, "net_income"),
               previous_net_income |-> SumOf(previous, "net_income"),
               net_income_growth |-> growth("net_income"),
               current_gross_margin |-> Mean(Column(current, "gross_margin")),
               previous_gross_margin |-> Mean(Column(previous, "gross_margin"))])

GetPeriodComparison(df, current_year, previous_year) ==
  LET current == RowsWhere(df, LAMBDA x : x.year = current_year).rows
      previous == RowsWhere(df, LAMBDA x : x.year = previous_year).rows
      growth(c) == FMul(FSub(FDiv(SumOf(current, c), SumOf(previous, c)), Num(1)),
                        Num(100))
      margin(g) == FMul(FDiv(SumOf(g, "gross_profit"), SumOf(g, "revenue")), Num(100))
  IN  IF current = <<>> \/ previous = <<>> THEN Ok(EmptyMap)
      ELSE Ok([current_revenue |-> SumOf(current, "revenue"),
               previous_revenue |-> SumOf(previous, "revenue"),
               revenue_growth |-> growth("revenue"),
               current_net_income |-> SumOf(current, "net_income"),
               previous_net_income |-> SumOf(previous, "net_income"),
               net_income_growth |-> growth("net_income"),
               current_gross_margin |-> margin(current),
               previous_gross_margin |-> margin(previous)])

\* Series.rolling(window).mean(): NaN until the window is full and wherever
\* the window holds a value that is not finite.
RollingMean(s, window) ==
  [i \in 1..Len(s) |->
     IF i < window \/ \E j \in (i - window + 1)..i : ~IsFinite(s[j]) THEN NaN
     ELSE FDiv(FSum(SubSeq(s, i - window + 1, i)), Num(window))]

SetRolling(h, r, c, from, window) ==
  SetColumn(h, r, c, RollingMean(Col(h[r], from), window))

CalculateRollingAverages(h, r, window) ==
  LET c == CopyFrame(h, r)
      h1 == SetRolling(c.heap, c.ref, "revenue_ma", "revenue", window)
      h2 == SetRolling(h1, c.ref, "net_income_ma", "net_income", window)
      h3 == SetRolling(h2, c.ref, "gross_margin_ma", "gross_margin", window)
  IN  Effect(h3, Ok(h3[c.ref]))

(***************************************************************************)
(* src/src/forecasting.py                                                   *)
(*                                                                          *)
(* ExponentialSmoothing(...).fit() belongs to statsmodels.  What the engine *)
(* sees of it is an outcome: an exception (FitError), or a fitted model of  *)
(* which the engine reads the forecast path, the residual spread, the       *)
(* in-sample error and the smoothing parameters.                            *)
(***************************************************************************)
FitError ==
  [fitted |-> FALSE, level |-> NaN, trend |-> NaN, resid |-> NaN, resid_std |-> NaN,
   smoothing_level |-> NaN, smoothing_trend |-> NaN, smoothing_seasonal |-> NaN]

FittedModels ==
  { [fitted |-> TRUE, level |-> Num(120), trend |-> Num(5), resid |-> Num(0),
     resid_std |-> Num(0), smoothing_level |-> Frac(1, 2),
     smoothing_trend |-> Frac(1, 10), smoothing_seasonal |-> Frac(1, 5)],
    [fitted |-> TRUE, level |-> Num(90), trend |-> Num(-5), resid |-> Num(4),
     resid_std |-> Num(10), smoothing_level |-> Frac(4, 5),
     smoothing_trend |-> Num(0), smoothing_seasonal |-> Frac(1, 10)] }

FitOutcomes == {FitError} \cup FittedModels

\* model.forecast(periods)
ModelForecast(model, periods) ==
  [i \in 1..periods |-> FAdd(model.level, FMul(model.trend, Num(i)))]

\* model.fittedvalues, on the index of the series
FittedValues(model, series) == [i \in 1..Len(series) |-> FSub(series[i], model.resid)]

FAbs(x) == [n |-> Abs(x.n), d |-> x.d]

\* np.sqrt of the square of a rational, the only square roots met here
SqrtOfSquare(x) == FAbs(x)

\* pd.date_range(start=df['date'].max() + pd.DateOffset(months=1),
\*               periods=periods, freq='MS'): the range holds month starts
\* only, the first of them on or after start.
ForecastDates(df, periods) ==
  LET latest == CHOOSE d \in {df.rows[i].date : i \in 1..NRows(df)} :
                  \A i \in 1..NRows(df) : df.rows[i].date <= d
      start == AddMonths(latest, 1)
      first == IF start % 31 = 0 THEN start ELSE AddMonths(start - (start % 31), 1)
  IN  [i \in 1..periods |-> AddMonths(first, i - 1)]

ForecastFrame(dates, cols) ==
  Frame({"date"} \cup DOMAIN cols,
        [i \in 1..Len(dates) |-> [date |-> dates[i]] @@ [c \in DOMAIN cols |-> cols[c][i]]])

\* 1.96 * std_error
HalfWidth(std_error) == FMul(Frac(196, 100), std_error)

\* The try block of forecast_revenue after a fit that did not raise.
FittedRevenueResult(df, periods, model) ==
  LET series == Col(df, "revenue")
      forecast == ModelForecast(model, periods)
      std_error == model.resid_std
      fitted_values == FittedValues(model, series)
      err == [i \in 1..Len(series) |-> FSub(series[i], fitted_values[i])]
      mae == Mean([i \in 1..Len(series) |-> FAbs(err[i])])
      mape == FMul(Mean([i \in 1..Len(series) |-> FAbs(FDiv(err[i], series[i]))]),
                   Num(100))
      rmse == SqrtOfSquare(model.resid)
  IN  [forecast_df |->
         ForecastFrame(ForecastDates(df, periods),
           [forecast |-> forecast,
            lower_bound |-> [i \in 1..periods |-> FSub(forecast[i], HalfWidth(std_error))],
            upper_bound |-> [i \in 1..periods |-> FAdd(forecast[i], HalfWidth(std_error))]]),
       historical |-> Project(df, {"date", "revenue"}),
       mae |-> Round(mae, 2), mape |-> Round(mape, 2), rmse |-> Round(rmse, 2),
       model_params |-> [alpha |-> Round(model.smoothing_level, 4),
                         beta |-> Round(model.smoothing_trend, 4),
                         gamma |-> Round(model.smoothing_seasonal, 4)]]

\* FittedMetricResult with the bands of forecast_revenue pasted in.
FittedMetricResultWithBands(df, metric, periods, model) ==
  LET forecast == ModelForecast(model, periods)
      w == HalfWidth(model.resid_std)
  IN  [forecast_df |->
         ForecastFrame(ForecastDates(df, periods),
           [forecast |-> forecast,
            lower_bound |-> [i \in 1..periods |-> FSub(forecast[i], w)],
            upper_bound |-> [i \in 1..periods |-> FAdd(forecast[i], w)]]),
       historical |-> Project(df, {"date", metric}),
       metric |-> metric]

\* The try block of forecast_metric after a fit that did not raise.
FittedMetricResult(df, metric, periods, model) ==
  [forecast_df |->
     ForecastFrame(ForecastDates(df, periods),
                   [forecast |-> ModelForecast(model, periods)]),
   historical |-> Project(df, {"date", metric}),
   metric |-> metric]

\* series.pct_change().mean()
GrowthRate(series) == Mean(PctChange(series))

\* GrowthPath with the exponent i instead of i + 1: the first point is the
\* last value itself.
GrowthPathFromLast(last_value, growth_rate, periods) ==
  [i \in 1..periods |-> FMul(last_value, FPow(FAdd(Num(1), growth_rate), i - 1))]

\* [last_value * (1 + growth_rate) ** (i + 1) for i in range(periods)]
GrowthPath(last_value, growth_rate, periods) ==
  [i \in 1..periods |-> FMul(last_value, FPow(FAdd(Num(1), growth_rate), i))]

LowerBand(v) == FMul(v, Frac(9, 10))

UpperBand(v) == FMul(v, Frac(11, 10))

SimpleForecast(df, metric, periods) ==
  IF OutOfBounds(df, 1) THEN Raise("IndexError")
  ELSE LET series == Col(df, metric)
           forecast_values == GrowthPath(Last(series), GrowthRate(series), periods)
       IN  Ok([forecast_df |->
                 ForecastFrame(ForecastDates(df, periods),
                   [forecast |-> forecast_values,
                    lower_bound |-> [i \in 1..periods |-> LowerBand(forecast_values[i])],
                    upper_bound |-> [i \in 1..periods |-> UpperBand(forecast_values[i])]]),
               historical |-> Project(df, {"date", metric}),
               mae |-> Num(0), mape |-> Num(0), rmse |-> Num(0),
               model_params |-> [method |-> "simple_growth"]])

\* forecast_revenue, given what the fit did: except Exception -> simple_forecast
ForecastRevenue(df, periods, fit) ==
  IF fit.fitted THEN Ok(FittedRevenueResult(df, periods, fit))
  ELSE SimpleForecast(df, "revenue", periods)

\* forecast_metric, given what the fit did
ForecastMetric(df, metric, periods, fit) ==
  IF fit.fitted THEN Ok(FittedMetricResult(df, metric, periods, fit))
  ELSE SimpleForecast(df, metric, periods)

\* The fit of an empty series raises: there is nothing to initialise from.
CanFit(df, fit) == fit.fitted => NRows(df) > 0

\* NthRoot without the root: (last / first) - 1, the growth over the whole
\* span.
NoRoot(x, k) == x

\* x ** (1 / k) for k = 1, and for k > 1 when x is the k-th power of a
\* rational with numerator and denominator up to 40.
NthRoot(x, k) ==
  IF k = 1 \/ ~IsFinite(x) THEN x
  ELSE IF x.n < 0 THEN NaN
  ELSE LET roots == {q \in {Frac(a, b) : a \in 0..40, b \in 1..40} : FPow(q, k) = x}
       IN  CHOOSE q \in roots : TRUE

\* df.groupby('year')['revenue'].sum(), ascending by year
AnnualRevenue(df) ==
  LET years == Ascending({r.year : r \in {df.rows[i] : i \in 1..NRows(df)}})
  IN  [j \in 1..Len(years) |->
         [year |-> years[j],
          revenue |-> SumOf(GroupRows(df, LAMBDA r : r.year, years[j]), "revenue")]]

CalculateGrowthProjections(df) ==
  LET df_annual == AnnualRevenue(df)
      totals == Column(df_annual, "revenue")
      several == Len(df_annual) >= 2
      avg_growth == IF several THEN Mean(PctChange(totals)) ELSE Num(0)
      cagr == IF several
              THEN FSub(NthRoot(FDiv(Last(totals), totals[1]), Len(df_annual) - 1), Num(1))
              ELSE Num(0)
      monthly_growth == Mean(PctChange(Col(df, "revenue")))
      last_year_revenue == IF df_annual = <<>> THEN Num(0) ELSE Last(totals)
      project(k) == FMul(last_year_revenue, FAdd(Num(1), FMul(avg_growth, k)))
  IN  Ok([avg_annual_growth |-> Round(FMul(avg_growth, Num(100)), 2),
          cagr |-> Round(FMul(cagr, Num(100)), 2),
          monthly_growth |-> Round(FMul(monthly_growth, Num(100)), 2),
          projections |-> [conservative |-> project(Frac(1, 2)),
                           base |-> project(Num(1)),
                           optimistic |-> project(Frac(3, 2))],
          historical_annual |-> df_annual])

Scenario(name, growth, margin_change) ==
  [scenario |-> name, growth |-> growth, margin_change |-> margin_change]

DefaultScenarios ==
  << Scenario("pessimistic", Frac(-5, 100), Frac(-2, 100)),
     Scenario("base", Frac(10, 100), Num(0)),
     Scenario("optimistic", Frac(20, 100), Frac(2, 100)) >>

\* scenarios=None
NoScenarios == [given |-> FALSE, table |-> <<>>]

Given(table) == [given |-> TRUE, table |-> table]

\* ScenarioRow with the projected margin applied to the base revenue.
ScenarioRowOnBaseRevenue(base_revenue, base_margin, params) ==
  LET projected_revenue == FMul(base_revenue, FAdd(Num(1), params.growth))
      projected_margin == FAdd(base_margin, params.margin_change)
  IN  [scenario |-> params.scenario,
       revenue |-> projected_revenue,
       growth_rate |-> FMul(params.growth, Num(100)),
       net_margin |-> FMul(projected_margin, Num(100)),
       net_income |-> FMul(base_revenue, projected_margin)]

ScenarioRow(base_revenue, base_margin, params) ==
  LET projected_revenue == FMul(base_revenue, FAdd(Num(1), params.growth))
      projected_margin == FAdd(base_margin, params.margin_change)
  IN  [scenario |-> params.scenario,
       revenue |-> projected_revenue,
       growth_rate |-> FMul(params.growth, Num(100)),
       net_margin |-> FMul(projected_margin, Num(100)),
       net_income |-> FMul(projected_revenue, projected_margin)]

\* ScenarioAnalysis with "if not scenarios" for "if scenarios is None": an
\* empty table is replaced by the defaults too.
ScenarioAnalysisDefaultsOnEmpty(df, scenarios) ==
  IF OutOfBounds(df, 1) THEN Raise("IndexError")
  ELSE LET table == IF scenarios.given /\ scenarios.table # <<>>
                    THEN scenarios.table ELSE DefaultScenarios
           base_revenue == FMul(Last(df.rows).revenue, Num(12))
           base_margin == FDiv(Last(df.rows).net_margin, Num(100))
       IN  Ok(Frame({"scenario", "revenue", "growth_rate", "net_margin", "net_income"},
                    [i \in 1..Len(table) |->
                       ScenarioRow(base_revenue, base_margin, table[i])]))

ScenarioAnalysis(df, scenarios) ==
  IF OutOfBounds(df, 1) THEN Raise("IndexError")
  ELSE LET table == IF scenarios.given THEN scenarios.table ELSE DefaultScenarios
           base_revenue == FMul(Last(df.rows).revenue, Num(12))
           base_margin == FDiv(Last(df.rows).net_margin, Num(100))
       IN  Ok(Frame(IF table = <<>> THEN {}
                    ELSE {"scenario", "revenue", "growth_rate", "net_margin", "net_income"},
                    [i \in 1..Len(table) |->
                       ScenarioRow(base_revenue, base_margin, table[i])]))

(***************************************************************************)
(* The shell's calls into the engine, one computation request at a time:    *)
(* a call runs to its return (or to the exception it raises), the shell     *)
(* takes the outcome and drops it before the next request.                  *)
(***************************************************************************)
Threads == {"t1", "t2"}

Metrics == {"revenue", "net_income"}

Horizons == 1..MaxHorizon

Years == {YearOf(m) : m \in StartMonths} \cup {YearOf(m) + 1 : m \in StartMonths}

ScenarioTables ==
  { NoScenarios, Given(<<>>),
    Given(<< Scenario("stress", Frac(-50, 100), Frac(-10, 100)),
             Scenario("flat", Num(0), Num(0)) >>) }

\* accuracy: whether the shell has drawn the accuracy section for the outcome.
NoCall ==
  [fn |-> "none", metric |-> "", periods |-> 0, year |-> 0, other |-> 0,
   window |-> 0, scenarios |-> NoScenarios, fit |-> FitError, accuracy |-> FALSE]

Call(fn) == [NoCall EXCEPT !.fn = fn]

Idle == [t \in Threads |-> "idle"]

InitEngine ==
  /\ heap \in {[df |-> a, budget_df |-> b, local |-> None] :
                 a \in LoadedFrames, b \in BudgetFrames}
  /\ op = NoCall
  /\ result = None
  /\ pc = Idle
  /\ args = [t \in Threads |-> None]
  /\ frame = [t \in Threads |-> None]
  /\ elapsed = [t \in Threads |-> 0]
  /\ lib = None

\* A call that only reads its table.
Reads(call, out) ==
  /\ op.fn = "none"
  /\ op' = call
  /\ result' = out
  /\ heap' = AfterReturn(heap)
  /\ UNCHANGED <<pc, args, frame, elapsed, lib>>

\* A call that works on objects of its own.
Works(call, effect) ==
  /\ op.fn = "none"
  /\ op' = call
  /\ result' = effect.out
  /\ heap' = AfterReturn(effect.heap)
  /\ UNCHANGED <<pc, args, frame, elapsed, lib>>

Kpis == Reads(Call("calculate_kpis"), CalculateKpis(heap.df))

Liquidity == Reads(Call("calculate_liquidity_ratios"), CalculateLiquidityRatios(heap.df))

Efficiency == Reads(Call("calculate_efficiency_ratios"), CalculateEfficiencyRatios(heap.df))

Leverage == Reads(Call("calculate_leverage_ratios"), CalculateLeverageRatios(heap.df))

Profitability ==
  Reads(Call("calculate_profitability_ratios"), CalculateProfitabilityRatios(heap.df))

AnnualSummary == Works(Call("calculate_annual_summary"), CalculateAnnualSummary(heap, "df"))

QuarterlySummary ==
  Works(Call("calculate_quarterly_summary"), CalculateQuarterlySummary(heap, "df"))

RevenueBreakdown ==
  Reads(Call("calculate_revenue_breakdown"), CalculateRevenueBreakdown(heap.df))

Health == Reads(Call("get_health_indicators"), GetHealthIndicators(heap.df))

PeriodComparison ==
  \E y \in Years, z \in Years :
    Reads([Call("get_period_comparison") EXCEPT !.year = y, !.other = z],
          GetPeriodComparison(heap.df, y, z))

Merge == Works(Call("merge_actual_budget"), MergeActualBudget(heap, "df", "budget_df"))

RollingAverages ==
  \E w \in 2..3 :
    Works([Call("calculate_rolling_averages") EXCEPT !.window = w],
          CalculateRollingAverages(heap, "df", w))

Filter ==
  \E y \in {0} \cup Years, q \in {0, 4} :
    Works([Call("filter_by_period") EXCEPT !.year = y, !.other = q],
          FilterByPeriod(heap, "df", y, q))

\* ShowsAccuracy without the test on the value: the section is drawn for
\* every result that has a mae.
ShowsAccuracyIfPresent(out) == out.kind = "ok" /\ "mae" \in DOMAIN out.value

\* if 'mae' in forecast_result and forecast_result['mae'] > 0: the shell
\* draws the accuracy section (an exception of the call ends the page before).
ShowsAccuracy(out) ==
  /\ out.kind = "ok"
  /\ "mae" \in DOMAIN out.value
  /\ FGt(out.value.mae, Num(0))

\* The forecast tab: the call, then the accuracy section if it is due.
ForecastRevenueCall ==
  \E h \in Horizons, fit \in FitOutcomes :
    /\ CanFit(heap.df, fit)
    /\ LET out == ForecastRevenue(heap.df, h, fit)
       IN  Reads([Call("forecast_revenue") EXCEPT !.metric = "revenue", !.periods = h,
                                                 !.fit = fit,
                                                 !.accuracy = ShowsAccuracy(out)],
                 out)

ForecastMetricCall ==
  \E m \in Metrics, h \in Horizons, fit \in FitOutcomes :
    /\ CanFit(heap.df, fit)
    /\ LET out == ForecastMetric(heap.df, m, h, fit)
       IN  Reads([Call("forecast_metric") EXCEPT !.metric = m, !.periods = h,
                                                !.fit = fit,
                                                !.accuracy = ShowsAccuracy(out)],
                 out)

SimpleForecastCall ==
  \E m \in Metrics, h \in Horizons :
    Reads([Call("simple_forecast") EXCEPT !.metric = m, !.periods = h],
          SimpleForecast(heap.df, m, h))

GrowthProjections ==
  Reads(Call("calculate_growth_projections"), CalculateGrowthProjections(heap.df))

Scenarios ==
  \E sc \in ScenarioTables :
    Reads([Call("scenario_analysis") EXCEPT !.scenarios = sc],
          ScenarioAnalysis(heap.df, sc))

\* The shell is done with the outcome.
Discard ==
  /\ op.fn # "none"
  /\ op' = NoCall
  /\ result' = None
  /\ UNCHANGED <<heap, pc, args, frame, elapsed, lib>>

Next ==
  \/ Kpis \/ Liquidity \/ Efficiency \/ Leverage \/ Profitability
  \/ AnnualSummary \/ QuarterlySummary \/ RevenueBreakdown \/ Health
  \/ PeriodComparison \/ Merge \/ RollingAverages \/ Filter
  \/ ForecastRevenueCall \/ ForecastMetricCall \/ SimpleForecastCall
  \/ GrowthProjections \/ Scenarios \/ Discard

Spec == InitEngine /\ [][Next]_vars

(***************************************************************************)
(* Forecast invocations step by step, one per thread, each on a table of    *)
(* its own (heap[t]).  An invocation's locals (frame[t]) live from the call *)
(* to the return.  lib is statsmodels' answer for each series and seasonal  *)
(* mode: unknown, but the same every time it is asked.                      *)
(***************************************************************************)
ForecastTable(fl) == LoadedTable(CHOOSE m \in StartMonths : TRUE, fl, OrdinarySheet)

\* The tables a thread may be given: an empty one, one of two months and
\* one of three.
InputsOf(t) ==
  IF t = "t1" THEN {ForecastTable(<<>>), ForecastTable(<<Growing, Shrinking>>)}
  ELSE {ForecastTable(<<Growing, Shrinking>>),
        ForecastTable(<<Shrinking, Growing, Growing>>)}

ForecastInputs == UNION {InputsOf(t) : t \in Threads}

\* The horizons a thread asks for: the shortest and the longest for the
\* first thread, the longest for the other.
ThreadHorizons(t) == IF t = "t1" THEN {1, MaxHorizon} ELSE {MaxHorizon}

\* seasonal='mul' in forecast_revenue, seasonal='add' in forecast_metric
SeasonalOf(fn) == IF fn = "forecast_revenue" THEN "mul" ELSE "add"

\* What the fit is given: ExponentialSmoothing(series, ..., seasonal=...)
FitKey(series, seasonal) == <<series, seasonal>>

FitKeys ==
  {FitKey(Col(df, "revenue"), "mul") : df \in ForecastInputs}
    \cup {FitKey(Col(df, "net_income"), "add") : df \in ForecastInputs}

\* For each question the library either raises or returns one fitted model.
LibraryAnswers(k) ==
  {FitError,
   IF k[2] = "mul" THEN CHOOSE m \in FittedModels : m.resid_std # Num(0)
   ELSE CHOOSE m \in FittedModels : m.resid_std = Num(0)}

Libraries ==
  {l \in [FitKeys -> FitOutcomes] :
     \A k \in FitKeys : l[k] \in LibraryAnswers(k) /\ (l[k].fitted => k[1] # <<>>)}

NoLocals == [series |-> <<>>, seasonal |-> "", model |-> FitError, path |-> <<>>]

NoArgs == [fn |-> "none", metric |-> "", periods |-> 0]

InitForecast ==
  /\ heap \in {h \in [Threads -> ForecastInputs] : \A t \in Threads : h[t] \in InputsOf(t)}
  /\ lib \in Libraries
  /\ op = NoCall
  /\ result = [t \in Threads |-> None]
  /\ pc = Idle
  /\ args = [t \in Threads |-> NoArgs]
  /\ frame = [t \in Threads |-> NoLocals]
  /\ elapsed = [t \in Threads |-> 0]

Ended(t) == pc[t] \in {"idle", "returned", "raised"}

\* LocalModel as a module-level variable that the first thread's frame holds.
SharedModel(frames, t) == frames["t1"].model

\* LocalModel as a module-level variable: a thread sees the model another
\* thread has just fitted.
GlobalModel(frames, t) ==
  IF \E u \in Threads \ {t} : frames[u].model.fitted
  THEN frames[CHOOSE u \in Threads \ {t} : frames[u].model.fitted].model
  ELSE frames[t].model

\* The local variable model of the invocation running in thread t.
LocalModel(frames, t) == frames[t].model

\* AfterFit without the except clause: the fit's exception leaves the call.
AfterFitUncaught(fit) == IF fit.fitted THEN "SUCCESS" ELSE "raised"

\* try: ... except Exception: the protocol state after the fit.
AfterFit(fit) == IF fit.fitted THEN "SUCCESS" ELSE "FAILURE"

Enter(t, a, first) ==
  /\ Ended(t)
  /\ args' = [args EXCEPT ![t] = a]
  /\ frame' = [frame EXCEPT ![t] = [series |-> Col(heap[t], a.metric),
                                    seasonal |-> SeasonalOf(a.fn),
                                    model |-> FitError,
                                    path |-> <<first>>]]
  /\ pc' = [pc EXCEPT ![t] = first]
  /\ result' = [result EXCEPT ![t] = None]
  /\ elapsed' = [elapsed EXCEPT ![t] = 0]
  /\ UNCHANGED <<heap, op, lib>>

CallForecastRevenue(t) ==
  \E h \in ThreadHorizons(t) :
    Enter(t, [fn |-> "forecast_revenue", metric |-> "revenue", periods |-> h],
          "ATTEMPT_SEASONAL_FIT")

CallForecastMetric(t) ==
  \E h \in ThreadHorizons(t) :
    Enter(t, [fn |-> "forecast_metric", metric |-> "net_income", periods |-> h],
          "ATTEMPT_SEASONAL_FIT")

CallSimpleForecast(t) ==
  \E h \in ThreadHorizons(t) :
    Enter(t, [fn |-> "simple_forecast", metric |-> "revenue", periods |-> h],
          "FALLBACK_GROWTH")

\* One more round of the optimizer inside .fit(optimized=True); elapsed[t]
\* counts them while the fit and its try block last.
FitIterate(t) ==
  /\ pc[t] = "ATTEMPT_SEASONAL_FIT"
  /\ elapsed[t] < MaxFitTicks
  /\ elapsed' = [elapsed EXCEPT ![t] = @ + 1]
  /\ UNCHANGED <<heap, op, result, pc, args, frame, lib>>

\* .fit() returns the fitted model or raises.
FitEnds(t) ==
  /\ pc[t] = "ATTEMPT_SEASONAL_FIT"
  /\ LET fit == lib[FitKey(frame[t].series, frame[t].seasonal)]
         to == AfterFit(fit)
     IN  /\ pc' = [pc EXCEPT ![t] = to]
         /\ frame' = [frame EXCEPT ![t].model = fit, ![t].path = Append(@, to)]
  /\ UNCHANGED <<heap, op, result, args, elapsed, lib>>

\* The rest of the try block: the result built from the fitted model.
ReturnFitted(t) ==
  /\ pc[t] = "SUCCESS"
  /\ result' = [result EXCEPT ![t] =
       IF args[t].fn = "forecast_revenue"
       THEN Ok(FittedRevenueResult(heap[t], args[t].periods, LocalModel(frame, t)))
       ELSE Ok(FittedMetricResult(heap[t], args[t].metric, args[t].periods,
                                  LocalModel(frame, t)))]
  /\ pc' = [pc EXCEPT ![t] = "returned"]
  /\ frame' = [frame EXCEPT ![t] = [NoLocals EXCEPT !.path = frame[t].path]]
  /\ elapsed' = [elapsed EXCEPT ![t] = 0]
  /\ UNCHANGED <<heap, op, args, lib>>

\* except Exception: return simple_forecast(df, metric, periods)
EnterFallback(t) ==
  /\ pc[t] = "FAILURE"
  /\ pc' = [pc EXCEPT ![t] = "FALLBACK_GROWTH"]
  /\ frame' = [frame EXCEPT ![t].path = Append(@, "FALLBACK_GROWTH")]
  /\ elapsed' = [elapsed EXCEPT ![t] = 0]
  /\ UNCHANGED <<heap, op, result, args, lib>>

\* simple_forecast runs to its return, or to the exception it raises.
ReturnFallback(t) ==
  /\ pc[t] = "FALLBACK_GROWTH"
  /\ LET out == SimpleForecast(heap[t], args[t].metric, args[t].periods)
     IN  /\ result' = [result EXCEPT ![t] = out]
         /\ pc' = [pc EXCEPT ![t] = IF out.kind = "ok" THEN "returned" ELSE "raised"]
  /\ frame' = [frame EXCEPT ![t] = [NoLocals EXCEPT !.path = frame[t].path]]
  /\ UNCHANGED <<heap, op, args, elapsed, lib>>

NextForecast ==
  \E t \in Threads :
    \/ CallForecastRevenue(t) \/ CallForecastMetric(t) \/ CallSimpleForecast(t)
    \/ FitIterate(t) \/ FitEnds(t) \/ ReturnFitted(t)
    \/ EnterFallback(t) \/ ReturnFallback(t)

SpecForecast == InitForecast /\ [][NextForecast]_vars

(***************************************************************************)
(* Properties of the forecast protocol (SpecForecast)                       *)
(***************************************************************************)
ProtocolPaths ==
  {<<"ATTEMPT_SEASONAL_FIT", "SUCCESS">>,
   <<"ATTEMPT_SEASONAL_FIT", "FAILURE", "FALLBACK_GROWTH">>}

IsPrefix(s, w) == Len(s) <= Len(w) /\ s = SubSeq(w, 1, Len(s))

\* The states forecast_revenue has been through are the start of one of the
\* two protocol paths, and the whole of one once it has returned.
FollowsProtocol(t) ==
  /\ \E w \in ProtocolPaths : IsPrefix(frame[t].path, w)
  /\ pc[t] \in {"returned", "raised"} => frame[t].path \in ProtocolPaths
  /\ pc[t] \notin {"returned", "raised"} => pc[t] = Last(frame[t].path)

\* C1 as the spec states it: forecast_revenue follows ATTEMPT_SEASONAL_FIT ->
\* SUCCESS or ATTEMPT_SEASONAL_FIT -> FAILURE -> FALLBACK_GROWTH, the fallback
\* is entered only after a failed fit, and no invocation ever ends in an
\* exception.
C1_NeverRaises ==
  \A t \in Threads :
    args[t].fn = "forecast_revenue" => FollowsProtocol(t) /\ pc[t] # "raised"

\* C1, corrected: forecast_revenue follows the protocol, the fallback is
\* entered only after a failed fit, and an invocation on a series of at least
\* one period ends with a result, fitted after SUCCESS and simple_growth after
\* FALLBACK_GROWTH; only on an empty series does it end in an exception, the
\* IndexError of the fallback's series.iloc[-1], never the fit's own.
C1_RecoversOnNonEmptySeries ==
  \A t \in Threads :
    args[t].fn = "forecast_revenue" =>
      /\ FollowsProtocol(t)
      /\ pc[t] = "raised" =>
           /\ NRows(heap[t]) = 0
           /\ Last(frame[t].path) = "FALLBACK_GROWTH"
           /\ result[t] = Raise("IndexError")
      /\ pc[t] = "returned" =>
           /\ result[t].kind = "ok"
           /\ (Last(frame[t].path) = "FALLBACK_GROWTH")
                = (result[t].value.model_params = [method |-> "simple_growth"])

\* C1: a fit that failed on a series of two periods, recovered by the growth
\* fallback.
C1_FallbackReturned ==
  \E t \in Threads :
    /\ args[t].fn = "forecast_revenue"
    /\ pc[t] = "returned"
    /\ NRows(heap[t]) = 2
    /\ frame[t].path = <<"ATTEMPT_SEASONAL_FIT", "FAILURE", "FALLBACK_GROWTH">>
    /\ result[t].kind = "ok"

\* C4 as the spec states it: once the fit has run longer than the caller's
\* timeout it is abandoned, so no invocation is still fitting, or still
\* building a fitted result, past the timeout.
C4_FitAbandonedAtTimeout ==
  \A t \in Threads :
    elapsed[t] > CallerTimeout => pc[t] \notin {"ATTEMPT_SEASONAL_FIT", "SUCCESS"}

\* C6: a forecast's result is a function of its arguments only: two ended
\* invocations with the same function, metric, horizon and series have the
\* same result, whatever ran before or alongside.
C6_SameArgumentsSameResult ==
  \A t, u \in Threads :
    (/\ pc[t] \in {"returned", "raised"}
     /\ pc[u] \in {"returned", "raised"}
     /\ args[t] = args[u]
     /\ heap[t] = heap[u])
      => result[t] = result[u]

\* C6: both threads have returned a fitted revenue forecast of the same series.
C6_TwoFittedResults ==
  /\ \A t \in Threads :
       /\ pc[t] = "returned"
       /\ args[t].fn = "forecast_revenue"
       /\ frame[t].path = <<"ATTEMPT_SEASONAL_FIT", "SUCCESS">>
  /\ args["t1"] = args["t2"]
  /\ heap["t1"] = heap["t2"]
  /\ NRows(heap["t1"]) > 0

\* What the invocation of thread t returns when it runs with nothing else
\* around it.
RunAlone(t) ==
  CASE args[t].fn = "forecast_revenue" ->
         ForecastRevenue(heap[t], args[t].periods,
                         lib[FitKey(Col(heap[t], "revenue"), "mul")])
    [] args[t].fn = "forecast_metric" ->
         ForecastMetric(heap[t], args[t].metric, args[t].periods,
                        lib[FitKey(Col(heap[t], args[t].metric), "add")])
    [] OTHER -> SimpleForecast(heap[t], args[t].metric, args[t].periods)

\* C7: concurrent invocations on disjoint inputs do not interfere: under
\* every interleaving an ended invocation has the result it has when run
\* alone, and the inputs are as they were given.
C7_InterleavedAsAlone ==
  \A t \in Threads :
    /\ heap[t] \in InputsOf(t)
    /\ pc[t] \in {"returned", "raised"} => result[t] = RunAlone(t)

\* C7: one thread returns a fitted forecast while the other, on another
\* series, holds a fitted model of its own and has not returned yet.
C7_OverlappingFits ==
  /\ pc["t1"] = "returned"
  /\ frame["t1"].path = <<"ATTEMPT_SEASONAL_FIT", "SUCCESS">>
  /\ pc["t2"] = "SUCCESS"
  /\ heap["t1"] # heap["t2"]
  /\ args["t1"].fn # args["t2"].fn

(***************************************************************************)
(* Properties of the engine's operations (Spec)                             *)
(***************************************************************************)
\* The call in op took the growth fallback.
FallbackTaken ==
  \/ op.fn = "simple_forecast"
  \/ op.fn \in {"forecast_revenue", "forecast_metric"} /\ ~op.fit.fitted

\* (b - a) / a, the fractional change from a to b.
FractionalChange(a, b) == FDiv(FSub(b, a), a)

\* The mean of the defined period-over-period fractional changes.
MeanFractionalChange(s) ==
  LET ch == [i \in 1..(Len(s) - 1) |-> FractionalChange(s[i], s[i + 1])]
      defined == SelectSeq(ch, LAMBDA x : ~IsNaN(x))
  IN  IF defined = <<>> THEN NaN ELSE FDiv(FSum(defined), Num(Len(defined)))

\* last * (1 + g) ^ k, one factor at a time.
RECURSIVE Compounded(_, _, _)
Compounded(last, g, k) ==
  IF k = 0 THEN last ELSE FMul(Compounded(last, g, k - 1), FAdd(Num(1), g))

Bandless(v, metric) ==
  /\ DOMAIN v = {"forecast_df", "historical", "metric"}
  /\ v.forecast_df.cols = {"date", "forecast"}
  /\ v.historical.cols = {"date", metric}
  /\ v.metric = metric

\* C3 as the spec states it: whichever path forecast_metric takes, its result
\* has no lower/upper bounds.
C3_NeverHasBands ==
  (op.fn = "forecast_metric" /\ result.kind = "ok") =>
    Bandless(result.value, op.metric)

\* C3, corrected: forecast_metric's result has no lower/upper bounds when the
\* seasonal fit succeeded; when the fit failed the result is simple_forecast's,
\* with lower_bound and upper_bound columns and mae, mape and rmse.
C3_BandsOnlyOnFallback ==
  (op.fn = "forecast_metric" /\ result.kind = "ok") =>
    IF op.fit.fitted THEN Bandless(result.value, op.metric)
    ELSE /\ result.value.forecast_df.cols =
              {"date", "forecast", "lower_bound", "upper_bound"}
         /\ DOMAIN result.value =
              {"forecast_df", "historical", "mae", "mape", "rmse", "model_params"}

\* C3: a fitted forecast of net income, two points, no bands.
C3_FittedMetricForecast ==
  /\ op.fn = "forecast_metric"
  /\ op.metric = "net_income"
  /\ op.fit.fitted
  /\ result.kind = "ok"
  /\ Len(result.value.forecast_df.rows) = 2
  /\ Bandless(result.value, "net_income")

\* C5: no operation of the engine changes the series or the budget it is
\* given: the caller's two tables are the same objects with the same contents
\* after every call.
C5_InputsNeverMutated ==
  [][heap'.df = heap.df /\ heap'.budget_df = heap.budget_df]_vars

\* C5: calculate_rolling_averages has returned a table with the three
\* moving-average columns while the caller's table has none of them.
C5_RollingColumnsOnCopy ==
  /\ op.fn = "calculate_rolling_averages"
  /\ result.kind = "ok"
  /\ NRows(heap.df) >= 2
  /\ {"revenue_ma", "net_income_ma", "gross_margin_ma"} \subseteq result.value.cols
  /\ heap.df.cols = LoadedCols
  /\ NRows(result.value) = NRows(heap.df)

KpiKeys ==
  {"total_revenue", "revenue_change", "gross_profit", "gross_margin",
   "operating_income", "operating_margin", "net_income", "net_income_change",
   "net_margin", "ebitda", "ebitda_margin", "total_assets", "total_liabilities",
   "total_equity", "cash"}

\* C8: calculate_kpis fails exactly when the series is empty (the IndexError
\* of df.iloc[-1] is the code's not-enough-data error) and returns the KPI
\* map of the latest period for every series of at least one period.
C8_KpisFailIffEmpty ==
  op.fn = "calculate_kpis" =>
    /\ (result.kind = "raise") = (NRows(heap.df) = 0)
    /\ result.kind = "raise" => result = Raise("IndexError")
    /\ result.kind = "ok" =>
         /\ DOMAIN result.value = KpiKeys
         /\ result.value.total_revenue = Last(heap.df.rows).revenue

\* C8: calculate_kpis was called on an empty series and failed.
C8_EmptySeriesFails ==
  /\ op.fn = "calculate_kpis"
  /\ NRows(heap.df) = 0
  /\ result = Raise("IndexError")

\* (latest / previous - 1) * 100 over one denominator; by IEEE rules when
\* previous is 0.
PercentChange(latest, previous) ==
  IF previous.n # 0 THEN FDiv(FMul(FSub(latest, previous), Num(100)), previous)
  ELSE SignedInf(Sgn(latest.n))

\* C9: revenue_change and net_income_change are (latest / previous - 1) * 100
\* when the series has at least two periods and 0 when it has exactly one.
C9_PeriodOverPeriodChange ==
  (op.fn = "calculate_kpis" /\ result.kind = "ok") =>
    LET n == NRows(heap.df)
        latest == heap.df.rows[n]
    IN  IF n >= 2
        THEN LET previous == heap.df.rows[n - 1]
             IN  /\ result.value.revenue_change =
                      PercentChange(latest.revenue, previous.revenue)
                 /\ result.value.net_income_change =
                      PercentChange(latest.net_income, previous.net_income)
        ELSE /\ result.value.revenue_change = Num(0)
             /\ result.value.net_income_change = Num(0)

\* C9: revenue went from 100 to 110 and net income from 10 to -20: the
\* changes are 10 and -300 percent.
C9_TenPercentUp ==
  /\ op.fn = "calculate_kpis"
  /\ result.kind = "ok"
  /\ NRows(heap.df) >= 2
  /\ result.value.revenue_change = Num(10)
  /\ result.value.net_income_change = Num(-300)

\* C10 as the spec states it: calculate_liquidity_ratios signals an error
\* when the latest period's current_liabilities is 0.
C10_ZeroLiabilitiesRaise ==
  (/\ op.fn = "calculate_liquidity_ratios"
   /\ NRows(heap.df) > 0
   /\ Last(heap.df.rows).current_liabilities = Num(0))
    => result.kind = "raise"

\* C11 as the spec states it: whenever calculate_liquidity_ratios returns a
\* ratio map for a latest period with inventory >= 0, quick_ratio is less
\* than or equal to current_ratio.
C11_QuickAtMostCurrent ==
  (/\ op.fn = "calculate_liquidity_ratios"
   /\ result.kind = "ok"
   /\ FGe(Last(heap.df.rows).inventory, Num(0)))
    => FLe(result.value.quick_ratio, result.value.current_ratio)

\* C12: calculate_leverage_ratios returns interest_coverage exactly 0 when
\* the latest period's interest_expense is 0 or negative, and
\* operating_income / interest_expense rounded to 2 decimals when it is
\* positive.
C12_InterestCoverage ==
  (op.fn = "calculate_leverage_ratios" /\ result.kind = "ok") =>
    LET latest == Last(heap.df.rows)
        e == latest.interest_expense
        o == latest.operating_income
    IN  IF e.n > 0
        THEN result.value.interest_coverage = Round(Frac(o.n * e.d, o.d * e.n), 2)
        ELSE result.value.interest_coverage = Num(0)

\* C12: operating income 20 over interest expense 4 gives a coverage of 5.
C12_CoverageOfFive ==
  /\ op.fn = "calculate_leverage_ratios"
  /\ result.kind = "ok"
  /\ Last(heap.df.rows).interest_expense = Num(4)
  /\ Last(heap.df.rows).operating_income = Num(20)
  /\ result.value.interest_coverage = Num(5)

\* The call in op divides by a figure that is 0 and has no documented
\* fallback value.
UndefinedRatio ==
  /\ NRows(heap.df) > 0
  /\ LET latest == Last(heap.df.rows)
         zero(c) == latest[c] = Num(0)
         rowsOf(y) == SelectSeq(heap.df.rows, LAMBDA r : r.year = y)
     IN  \/ /\ op.fn \in {"calculate_leverage_ratios", "calculate_profitability_ratios"}
            /\ zero("total_equity") \/ zero("total_assets")
         \/ /\ op.fn = "calculate_efficiency_ratios"
            /\ \E c \in {"total_assets", "inventory", "accounts_receivable",
                         "accounts_payable", "revenue", "cogs"} : zero(c)
         \/ /\ op.fn = "calculate_kpis"
            /\ NRows(heap.df) > 1
            /\ \E c \in {"revenue", "net_income"} :
                 heap.df.rows[NRows(heap.df) - 1][c] = Num(0)
         \/ op.fn = "calculate_revenue_breakdown" /\ zero("revenue")
         \/ /\ op.fn = "get_period_comparison"
            /\ rowsOf(op.year) # <<>>
            /\ rowsOf(op.other) # <<>>
            /\ \E c \in {"revenue", "net_income"} : SumOf(rowsOf(op.other), c) = Num(0)

\* C13 as the spec states it: a zero denominator without a documented
\* fallback makes the call fail with an error; no map with 0, infinity or
\* NaN in it is returned.
C13_ZeroDenominatorRaises == UndefinedRatio => result.kind = "raise"

\* The dates of the rows of a table.
DatesOf(df) == {df.rows[i].date : i \in 1..NRows(df)}

\* C14: merge_actual_budget is an inner join on date: its output has a row
\* for a date exactly when the date occurs in both the actual and the budget
\* table, one row per such date.
C14_InnerJoinOnDate ==
  op.fn = "merge_actual_budget" =>
    /\ result.kind = "ok"
    /\ DatesOf(result.value) = DatesOf(heap.df) \cap DatesOf(heap.budget_df)
    /\ NRows(result.value) = Cardinality(DatesOf(heap.df) \cap DatesOf(heap.budget_df))

\* C14: a joined row, an actual month without a budget and a budget month
\* without an actual.
C14_BothSidesDropped ==
  /\ op.fn = "merge_actual_budget"
  /\ result.kind = "ok"
  /\ NRows(result.value) > 0
  /\ DatesOf(heap.df) \ DatesOf(heap.budget_df) # {}
  /\ DatesOf(heap.budget_df) \ DatesOf(heap.df) # {}

\* The actual figure, the budget figure, and the two variance columns of each
\* of the three variances.
Variances ==
  { [actual |-> "revenue", budget |-> "budget_revenue",
     variance |-> "revenue_variance", pct |-> "revenue_variance_pct"],
    [actual |-> "net_income", budget |-> "budget_net_income",
     variance |-> "net_income_variance", pct |-> "net_income_variance_pct"],
    [actual |-> "operating_expenses", budget |-> "budget_operating_expenses",
     variance |-> "opex_variance", pct |-> "opex_variance_pct"] }

\* a - b and a * 100 / b for finite a and b, b not 0.
Difference(a, b) == Frac(a.n * b.d - b.n * a.d, a.d * b.d)

PercentOf(a, b) == Frac(a.n * 100 * b.d * Sgn(b.n), a.d * Abs(b.n))

\* The joined rows and variances with a budget figure that is a number
\* other than 0.
Budgeted(row, v) == IsFinite(row[v.budget]) /\ row[v.budget] # Num(0)

\* C15 as the spec states it: on every joined row with a non-zero budget
\* figure, variance = actual - budget and variance_pct is exactly
\* variance / budget * 100.
C15_VariancePctExact ==
  (op.fn = "merge_actual_budget" /\ result.kind = "ok") =>
    \A i \in 1..NRows(result.value), v \in Variances :
      LET row == result.value.rows[i]
      IN  Budgeted(row, v) =>
            /\ row[v.variance] = Difference(row[v.actual], row[v.budget])
            /\ row[v.pct] = PercentOf(row[v.variance], row[v.budget])

\* C15, corrected: on every joined row with a non-zero budget figure,
\* variance = actual - budget and variance_pct is variance / budget * 100
\* rounded to 2 decimals.
C15_VariancePctRounded ==
  (op.fn = "merge_actual_budget" /\ result.kind = "ok") =>
    \A i \in 1..NRows(result.value), v \in Variances :
      LET row == result.value.rows[i]
      IN  Budgeted(row, v) =>
            /\ row[v.variance] = Difference(row[v.actual], row[v.budget])
            /\ row[v.pct] = Round(PercentOf(row[v.variance], row[v.budget]), 2)

\* C15: actual revenue 110 against a budget of 100 gives a variance of 10 and
\* 10 percent; on the same row net income -20 against 30 gives -50 and
\* -166.67 percent.
C15_TenOverBudget ==
  /\ op.fn = "merge_actual_budget"
  /\ result.kind = "ok"
  /\ \E i \in 1..NRows(result.value) :
       LET row == result.value.rows[i]
       IN  /\ row.revenue = Num(110) /\ row.budget_revenue = Num(100)
           /\ row.revenue_variance = Num(10)
           /\ row.revenue_variance_pct = Num(10)
           /\ row.net_income_variance = Num(-50)
           /\ row.net_income_variance_pct = Frac(-16667, 100)

\* The budget figure of the variance is 0 or missing on the row.
Unbudgeted(row, v) == IsNaN(row[v.budget]) \/ row[v.budget] = Num(0)

PeriodsOf(y) == SelectSeq(heap.df.rows, LAMBDA r : r.year = y)

\* C17: get_period_comparison never raises; its result is empty exactly when
\* at least one of the two years has no periods, and non-empty when both have
\* periods.
C17_EmptyIffYearMissing ==
  op.fn = "get_period_comparison" =>
    /\ result.kind = "ok"
    /\ (DOMAIN result.value = {})
         = (PeriodsOf(op.year) = <<>> \/ PeriodsOf(op.other) = <<>>)

\* C17: the first year has periods, the second has none, and the result is
\* empty.
C17_SecondYearMissing ==
  /\ op.fn = "get_period_comparison"
  /\ PeriodsOf(op.year) # <<>>
  /\ PeriodsOf(op.other) = <<>>
  /\ result = Ok(EmptyMap)

\* The sum of column c over rows, all entries finite.
RECURSIVE Total(_, _)
Total(rows, c) ==
  IF rows = <<>> THEN Num(0)
  ELSE LET x == Head(rows)[c]
           rest == Total(Tail(rows), c)
       IN  Frac(x.n * rest.d + rest.n * x.d, x.d * rest.d)

\* a / b * 100 for finite a and b; by IEEE rules when b is 0.
PercentShare(a, b) ==
  IF b.n # 0 THEN PercentOf(a, b) ELSE SignedInf(Sgn(a.n))

\* C18: when both years have periods, revenue_growth is (sum of revenue in
\* year_a / sum of revenue in year_b - 1) * 100, net_income_growth likewise,
\* and each year's gross margin is sum(gross_profit) / sum(revenue) * 100
\* over the year's periods.
C18_ComparisonOfSums ==
  (/\ op.fn = "get_period_comparison"
   /\ PeriodsOf(op.year) # <<>>
   /\ PeriodsOf(op.other) # <<>>) =>
    LET a == PeriodsOf(op.year)
        b == PeriodsOf(op.other)
        v == result.value
    IN  /\ result.kind = "ok"
        /\ v.current_revenue = Total(a, "revenue")
        /\ v.previous_revenue = Total(b, "revenue")
        /\ v.current_net_income = Total(a, "net_income")
        /\ v.previous_net_income = Total(b, "net_income")
        /\ v.revenue_growth = PercentChange(Total(a, "revenue"), Total(b, "revenue"))
        /\ v.net_income_growth =
             PercentChange(Total(a, "net_income"), Total(b, "net_income"))
        /\ v.current_gross_margin =
             PercentShare(Total(a, "gross_profit"), Total(a, "revenue"))
        /\ v.previous_gross_margin =
             PercentShare(Total(b, "gross_profit"), Total(b, "revenue"))

\* C18: a year of two months, revenue 100 at a margin of 40 and revenue 110
\* at a margin of 30: the year's gross margin is 73 / 210 * 100, not 35.
C18_VolumeWeightedMargin ==
  /\ op.fn = "get_period_comparison"
  /\ result.kind = "ok"
  /\ PeriodsOf(op.other) # <<>>
  /\ {r.revenue : r \in {PeriodsOf(op.year)[i] : i \in 1..Len(PeriodsOf(op.year))}}
       = {Num(100), Num(110)}
  /\ result.value.current_gross_margin = Frac(7300, 210)
  /\ Mean(Column(PeriodsOf(op.year), "gross_margin")) = Num(35)

\* The years that occur in the caller's table.
YearsIn == {heap.df.rows[i].year : i \in 1..NRows(heap.df)}

\* One row per distinct year, ascending, with the year's sums and the values
\* of the year's last period.
AnnualRowsOfSums(out) ==
  /\ NRows(out) = Cardinality(YearsIn)
  /\ {out.rows[j].year : j \in 1..NRows(out)} = YearsIn
  /\ \A j \in 1..(NRows(out) - 1) : out.rows[j].year < out.rows[j + 1].year
  /\ \A j \in 1..NRows(out) :
       LET row == out.rows[j]
           periods == PeriodsOf(row.year)
       IN  /\ \A c \in {"revenue", "gross_profit", "operating_income", "net_income",
                        "ebitda"} : row[c] = Total(periods, c)
           /\ \A c \in {"total_assets", "total_equity", "cash"} :
                row[c] = periods[Len(periods)][c]

\* The three margins of the annual summary and the flows they come from.
AnnualMargins ==
  { [margin |-> "gross_margin", profit |-> "gross_profit"],
    [margin |-> "operating_margin", profit |-> "operating_income"],
    [margin |-> "net_margin", profit |-> "net_income"] }

\* C19 as the spec states it: calculate_annual_summary returns one row per
\* distinct year with the year's sums and last-period values, and each margin
\* is exactly summed profit / summed revenue * 100.
C19_MarginsOfSumsExact ==
  op.fn = "calculate_annual_summary" =>
    /\ result.kind = "ok"
    /\ AnnualRowsOfSums(result.value)
    /\ \A j \in 1..NRows(result.value), m \in AnnualMargins :
         LET row == result.value.rows[j]
         IN  row[m.margin] = PercentShare(row[m.profit], row.revenue)

\* C19, corrected: calculate_annual_summary returns one row per distinct
\* year with the year's sums and last-period values, and each margin is
\* summed profit / summed revenue * 100 rounded to 2 decimals.
C19_MarginsOfSumsRounded ==
  op.fn = "calculate_annual_summary" =>
    /\ result.kind = "ok"
    /\ AnnualRowsOfSums(result.value)
    /\ \A j \in 1..NRows(result.value), m \in AnnualMargins :
         LET row == result.value.rows[j]
         IN  row[m.margin] = Round(PercentShare(row[m.profit], row.revenue), 2)

\* C19: a year of two months, revenue 100 at a margin of 40 and 110 at a
\* margin of 30: the annual row has revenue 210 and gross margin 34.76, not
\* the average 35, and the total equity of the second month.
C19_AnnualRowOfTwoMonths ==
  /\ op.fn = "calculate_annual_summary"
  /\ result.kind = "ok"
  /\ NRows(heap.df) = 2
  /\ heap.df.rows[1].total_equity # heap.df.rows[2].total_equity
  /\ Mean(Column(heap.df.rows, "gross_margin")) = Num(35)
  /\ NRows(result.value) = 1
  /\ result.value.rows[1].revenue = Num(210)
  /\ result.value.rows[1].gross_margin = Frac(3476, 100)
  /\ result.value.rows[1].total_equity = heap.df.rows[2].total_equity

\* C20: in the result of calculate_annual_summary the first row's
\* revenue_growth and net_income_growth are undefined (NaN), never 0, and
\* every later row's growth is (row value / previous row value - 1) * 100.
C20_GrowthAcrossAnnualRows ==
  (op.fn = "calculate_annual_summary" /\ result.kind = "ok") =>
    LET rows == result.value.rows
    IN  \A j \in 1..Len(rows) :
          IF j = 1
          THEN IsNaN(rows[1].revenue_growth) /\ IsNaN(rows[1].net_income_growth)
          ELSE /\ rows[j].revenue_growth =
                    PercentChange(rows[j].revenue, rows[j - 1].revenue)
               /\ rows[j].net_income_growth =
                    PercentChange(rows[j].net_income, rows[j - 1].net_income)

\* C20: two annual rows, the first without growth, the second with a revenue
\* of 100 after 210: a growth of -1100/21 percent.
C20_SecondYearGrowth ==
  /\ op.fn = "calculate_annual_summary"
  /\ result.kind = "ok"
  /\ NRows(result.value) = 2
  /\ IsNaN(result.value.rows[1].revenue_growth)
  /\ result.value.rows[1].revenue = Num(210)
  /\ result.value.rows[2].revenue = Num(100)
  /\ result.value.rows[2].revenue_growth = Frac(-1100, 21)

\* The revenue of each year of the caller's table, ascending by year.
AnnualTotals ==
  LET years == Ascending(YearsIn)
  IN  [j \in 1..Len(years) |-> Total(PeriodsOf(years[j]), "revenue")]

\* b / a for finite a and b, a not 0.
Quotient(b, a) == Frac(b.n * a.d * Sgn(a.n), b.d * Abs(a.n))

\* The totals grow by the same factor from every year to the next.
GrowsAtOneRate(t) ==
  /\ \A j \in 1..(Len(t) - 1) : t[j].n # 0
  /\ \A j \in 1..(Len(t) - 1) : Quotient(t[j + 1], t[j]) = Quotient(t[2], t[1])

\* The yearly rate of such totals, as a percentage: (t[2] / t[1] - 1) * 100.
YearlyRatePct(t) ==
  LET q == Quotient(t[2], t[1])
  IN  Frac((q.n - q.d) * 100, q.d)

\* C21 as the spec states it: for a series whose annual revenue grows at
\* exactly rate r per year over n >= 2 years the returned cagr equals r (as a
\* percentage), and with fewer than 2 annual points cagr and
\* avg_annual_growth are 0.
C21_CagrIsRate ==
  (op.fn = "calculate_growth_projections" /\ result.kind = "ok") =>
    LET t == AnnualTotals
    IN  IF Len(t) < 2
        THEN result.value.cagr = Num(0) /\ result.value.avg_annual_growth = Num(0)
        ELSE GrowsAtOneRate(t) => result.value.cagr = YearlyRatePct(t)

\* C21, corrected: for a series whose annual revenue grows at exactly rate r
\* per year over n >= 2 years the returned cagr is r as a percentage rounded
\* to 2 decimals, and with fewer than 2 annual points cagr and
\* avg_annual_growth are 0.
C21_CagrIsRateRounded ==
  (op.fn = "calculate_growth_projections" /\ result.kind = "ok") =>
    LET t == AnnualTotals
    IN  IF Len(t) < 2
        THEN result.value.cagr = Num(0) /\ result.value.avg_annual_growth = Num(0)
        ELSE GrowsAtOneRate(t) => result.value.cagr = Round(YearlyRatePct(t), 2)

\* C21: annual revenue of 600, 1200 and 2400 over three years: a cagr of 100
\* percent, where the growth over the whole span is 300 percent.
C21_DoublingOverThreeYears ==
  /\ op.fn = "calculate_growth_projections"
  /\ result.kind = "ok"
  /\ AnnualTotals = <<Num(600), Num(1200), Num(2400)>>
  /\ result.value.cagr = Num(100)

\* The scenarios of a call without a table, as the spec lists them: name,
\* growth, and margin change in percentage points.
StatedDefaults ==
  << [scenario |-> "pessimistic", growth |-> Frac(-5, 100), points |-> Num(-2)],
     [scenario |-> "base", growth |-> Frac(10, 100), points |-> Num(0)],
     [scenario |-> "optimistic", growth |-> Frac(20, 100), points |-> Num(2)] >>

\* The scenarios in force for the call in op.
ScenariosInForce ==
  IF op.scenarios.given
  THEN [i \in 1..Len(op.scenarios.table) |->
          [scenario |-> op.scenarios.table[i].scenario,
           growth |-> op.scenarios.table[i].growth,
           points |-> FMul(op.scenarios.table[i].margin_change, Num(100))]]
  ELSE StatedDefaults

\* C22: for every scenario, scenario_analysis reports revenue = latest
\* monthly revenue * 12 * (1 + growth), net_margin = latest net margin +
\* margin_change (percentage points) and net_income = projected revenue *
\* projected margin; without a table the scenarios are pessimistic (-5%,
\* -2pp), base (+10%, 0pp) and optimistic (+20%, +2pp).
C22_ScenarioRows ==
  (op.fn = "scenario_analysis" /\ result.kind = "ok") =>
    LET latest == Last(heap.df.rows)
        sc == ScenariosInForce
        rows == result.value.rows
    IN  /\ Len(rows) = Len(sc)
        /\ \A i \in 1..Len(sc) :
             /\ rows[i].scenario = sc[i].scenario
             /\ rows[i].revenue =
                  FMul(FMul(latest.revenue, Num(12)), FAdd(Num(1), sc[i].growth))
             /\ rows[i].net_margin = FAdd(latest.net_margin, sc[i].points)
             /\ rows[i].net_income =
                  FDiv(FMul(rows[i].revenue, rows[i].net_margin), Num(100))

\* C22: latest monthly revenue 100,000 and net margin 20 percent, no table:
\* the base scenario has revenue 1,320,000 and net income 264,000.
C22_BaseOfHundredThousand ==
  /\ op.fn = "scenario_analysis"
  /\ ~op.scenarios.given
  /\ result.kind = "ok"
  /\ Last(heap.df.rows).revenue = Num(100000)
  /\ Last(heap.df.rows).net_margin = Num(20)
  /\ result.value.rows[2].scenario = "base"
  /\ result.value.rows[2].revenue = Num(1320000)
  /\ result.value.rows[2].net_income = Num(264000)

\* The scenario names of the rows of a result, in order.
NamesOf(rows) == [i \in 1..Len(rows) |-> rows[i].scenario]

\* C23: for every table the caller supplies, of any length and with any
\* names, the result has exactly one row per entry, in the table's order,
\* with that entry's growth; the three default scenarios appear only when
\* the caller supplies no table.
C23_OneRowPerEntry ==
  (op.fn = "scenario_analysis" /\ result.kind = "ok") =>
    LET rows == result.value.rows
        table == op.scenarios.table
    IN  IF op.scenarios.given
        THEN /\ NamesOf(rows) = NamesOf(table)
             /\ \A i \in 1..Len(table) :
                  rows[i].growth_rate = FMul(table[i].growth, Num(100))
        ELSE NamesOf(rows) = <<"pessimistic", "base", "optimistic">>

\* C23: a table of two scenarios named stress and flat was supplied: two
\* rows, stress first with a growth of -50 percent, no default scenario.
C23_TwoSuppliedScenarios ==
  /\ op.fn = "scenario_analysis"
  /\ op.scenarios.given
  /\ result.kind = "ok"
  /\ NamesOf(result.value.rows) = <<"stress", "flat">>
  /\ result.value.rows[1].growth_rate = Num(-50)
  /\ result.value.rows[2].revenue = FMul(Last(heap.df.rows).revenue, Num(12))

\* The grade of a value v that is not NaN against thresholds g/10 and w/10,
\* higher being better.
GradeOfTenths(v, g, w) ==
  IF v.n * 10 >= g * v.d THEN "Good"
  ELSE IF v.n * 10 >= w * v.d THEN "Warning"
  ELSE "Critical"

\* C24: the Current Ratio indicator of get_health_indicators is Good when
\* its reported current ratio is >= 1.5, Warning when it is >= 1.0 and < 1.5,
\* Critical when it is < 1.0; 1.5 is Good and 1.0 is Warning.
C24_CurrentRatioStatus ==
  (op.fn = "get_health_indicators" /\ result.kind = "ok") =>
    LET ind == result.value[1]
    IN  /\ ind.metric = "Current Ratio"
        /\ ind.value = Round(FDiv(Last(heap.df.rows).current_assets,
                                  Last(heap.df.rows).current_liabilities), 2)
        /\ ~IsNaN(ind.value) => ind.status = GradeOfTenths(ind.value, 15, 10)
        /\ ind.value = Frac(16, 10) => ind.status = "Good"
        /\ ind.value = Frac(15, 10) => ind.status = "Good"
        /\ ind.value = Frac(12, 10) => ind.status = "Warning"
        /\ ind.value = Num(1) => ind.status = "Warning"
        /\ ind.value = Frac(5, 10) => ind.status = "Critical"

\* C24: a current ratio of exactly 1.0 (current assets 200 over current
\* liabilities 200) is tagged Warning.
C24_RatioOfOneIsWarning ==
  /\ op.fn = "get_health_indicators"
  /\ result.kind = "ok"
  /\ Last(heap.df.rows).current_assets = Num(200)
  /\ Last(heap.df.rows).current_liabilities = Num(200)
  /\ result.value[1].value = Num(1)
  /\ result.value[1].status = "Warning"

\* The six indicators in their order: the label, the thresholds for Good and
\* Warning in tenths, and whether higher values are better.
IndicatorRules ==
  << [metric |-> "Current Ratio", good |-> 15, warn |-> 10, higher |-> TRUE],
     [metric |-> "Quick Ratio", good |-> 10, warn |-> 7, higher |-> TRUE],
     [metric |-> "Debt to Equity", good |-> 10, warn |-> 20, higher |-> FALSE],
     [metric |-> "Interest Coverage", good |-> 30, warn |-> 15, higher |-> TRUE],
     [metric |-> "Return on Equity", good |-> 150, warn |-> 100, higher |-> TRUE],
     [metric |-> "Net Profit Margin", good |-> 150, warn |-> 100, higher |-> TRUE] >>

\* The grade a rule gives a value; a value that is not a number passes no
\* threshold.
GradeByRule(v, rule) ==
  IF IsNaN(v) THEN "Critical"
  ELSE IF rule.higher THEN GradeOfTenths(v, rule.good, rule.warn)
  ELSE IF v.n * 10 <= rule.good * v.d THEN "Good"
  ELSE IF v.n * 10 <= rule.warn * v.d THEN "Warning"
  ELSE "Critical"

\* C25: whenever get_health_indicators returns, it returns exactly six
\* indicators in the order Current Ratio, Quick Ratio, Debt to Equity,
\* Interest Coverage, Return on Equity, Net Margin (labelled Net Profit
\* Margin), and each status is one of Good, Warning and Critical, fixed by
\* the indicator's value and its two thresholds alone.
C25_SixIndicatorsInOrder ==
  (op.fn = "get_health_indicators" /\ result.kind = "ok") =>
    LET ind == result.value
    IN  /\ DOMAIN ind = 1..6
        /\ \A i \in 1..6 :
             /\ ind[i].metric = IndicatorRules[i].metric
             /\ ind[i].status \in {"Good", "Warning", "Critical"}
             /\ ind[i].status = GradeByRule(ind[i].value, IndicatorRules[i])

\* C25: a latest period without equity: current ratio 1.15 is Warning,
\* debt to equity is infinite and Critical, interest coverage 5 is Good.
C25_AllThreeGrades ==
  /\ op.fn = "get_health_indicators"
  /\ result.kind = "ok"
  /\ Last(heap.df.rows).total_equity = Num(0)
  /\ [i \in 1..6 |-> result.value[i].status]
       = <<"Warning", "Good", "Critical", "Good", "Good", "Warning">>

\* The figures of the latest period that the efficiency ratios divide by
\* are all other than 0.
EfficiencyDefined ==
  /\ NRows(heap.df) > 0
  /\ \A c \in {"revenue", "cogs", "accounts_receivable", "inventory",
               "accounts_payable"} : Last(heap.df.rows)[c].n # 0

\* C26: from the latest period, receivables_turnover = revenue * 12 /
\* accounts_receivable, inventory_turnover = cogs * 12 / inventory,
\* payables_turnover = cogs * 12 / accounts_payable, DSO, DIO and DPO are 365
\* over the respective turnover, and cash_conversion_cycle = DSO + DIO - DPO;
\* turnovers are reported to 2 decimals and day-metrics to 1 decimal, each
\* rounded once, from the unrounded figures.
C26_EfficiencyFormulas ==
  (op.fn = "calculate_efficiency_ratios" /\ result.kind = "ok" /\ EfficiencyDefined) =>
    LET latest == Last(heap.df.rows)
        v == result.value
        receivables_turnover == Quotient(FMul(latest.revenue, Num(12)),
                                         latest.accounts_receivable)
        inventory_turnover == Quotient(FMul(latest.cogs, Num(12)), latest.inventory)
        payables_turnover == Quotient(FMul(latest.cogs, Num(12)),
                                      latest.accounts_payable)
        dso == Quotient(Num(365), receivables_turnover)
        dio == Quotient(Num(365), inventory_turnover)
        dpo == Quotient(Num(365), payables_turnover)
    IN  /\ v.receivables_turnover = Round(receivables_turnover, 2)
        /\ v.inventory_turnover = Round(inventory_turnover, 2)
        /\ v.dso = Round(dso, 1)
        /\ v.dio = Round(dio, 1)
        /\ v.dpo = Round(dpo, 1)
        /\ v.cash_conversion_cycle = Round(FSub(FAdd(dso, dio), dpo), 1)

\* C26: revenue 100, cogs 60, receivables 80, inventory 50, payables 40:
\* DSO 24.3, DIO 25.3, DPO 20.3 and a cash conversion cycle of 29.4, which
\* is the rounded sum of the unrounded day-metrics, not 24.3 + 25.3 - 20.3.
C26_CycleOfUnroundedDays ==
  /\ op.fn = "calculate_efficiency_ratios"
  /\ result.kind = "ok"
  /\ EfficiencyDefined
  /\ result.value.receivables_turnover = Num(15)
  /\ result.value.dso = Frac(243, 10)
  /\ result.value.dio = Frac(253, 10)
  /\ result.value.dpo = Frac(203, 10)
  /\ result.value.cash_conversion_cycle = Frac(294, 10)

\* The call in op is a forecast that returned a result.
ForecastReturned ==
  /\ op.fn \in {"forecast_revenue", "forecast_metric", "simple_forecast"}
  /\ result.kind = "ok"

\* The latest date of the caller's table and the start of its month.
LatestDate == CHOOSE d \in DatesOf(heap.df) : \A e \in DatesOf(heap.df) : e <= d

MonthStartOf(date) == date - (date % 31)

\* C27 as the spec states it: every forecast result, fitted or fallback, has
\* exactly h points for a requested horizon h, dated at the h consecutive
\* month starts that follow the latest date of the input series, ascending.
C27_NextMonthStarts ==
  ForecastReturned =>
    LET rows == result.value.forecast_df.rows
    IN  /\ Len(rows) = op.periods
        /\ \A i \in 1..Len(rows) : rows[i].date = MonthStartOf(LatestDate) + 31 * i

\* C28 as the spec states it: in every forecast result that carries bounds,
\* each point has lower_bound <= forecast <= upper_bound, on the fitted path
\* and on the fallback path, for negative metric values too.
C28_BoundsEncloseForecast ==
  (ForecastReturned /\ "lower_bound" \in result.value.forecast_df.cols) =>
    \A i \in 1..NRows(result.value.forecast_df) :
      LET point == result.value.forecast_df.rows[i]
      IN  FLe(point.lower_bound, point.forecast) /\ FLe(point.forecast, point.upper_bound)

\* C29: whenever the fallback growth projection produced the forecast
\* result, the shell does not show the accuracy section: the section is
\* shown only for a result that has a mae greater than 0, and every fallback
\* result has mae = 0.
C29_FallbackHidesAccuracy ==
  /\ (FallbackTaken /\ result.kind = "ok") =>
       result.value.mae = Num(0) /\ ~op.accuracy
  /\ op.accuracy =>
       /\ op.fn \in {"forecast_revenue", "forecast_metric"}
       /\ result.kind = "ok"
       /\ "mae" \in DOMAIN result.value
       /\ result.value.mae.n > 0 /\ result.value.mae.d > 0

\* C29: the shell asked for a revenue forecast, the fit failed, the fallback
\* returned a result with mae 0, and the accuracy section was not shown.
C29_FallbackShownWithoutAccuracy ==
  /\ op.fn = "forecast_revenue"
  /\ ~op.fit.fitted
  /\ result.kind = "ok"
  /\ result.value.model_params = [method |-> "simple_growth"]
  /\ result.value.mae = Num(0)
  /\ ~op.accuracy

\* C30: whenever the latest period's interest_expense is 0 or negative,
\* get_health_indicators tags the Interest Coverage indicator Critical with
\* value 0: the fallback value 0 of calculate_leverage_ratios is below both
\* thresholds, 3.0 and 1.5.
C30_NoInterestIsCritical ==
  (/\ op.fn = "get_health_indicators"
   /\ result.kind = "ok"
   /\ Last(heap.df.rows).interest_expense.n <= 0) =>
    /\ result.value[4].metric = "Interest Coverage"
    /\ result.value[4].value = Num(0)
    /\ result.value[4].status = "Critical"

\* C30: a latest period with no interest expense and every other indicator
\* of the balance sheet Good: Interest Coverage is 0 and Critical.
C30_DebtFreeIsCritical ==
  /\ op.fn = "get_health_indicators"
  /\ result.kind = "ok"
  /\ Last(heap.df.rows).interest_expense = Num(0)
  /\ result.value[1].status = "Good"
  /\ result.value[3].status = "Good"
  /\ result.value[4].value = Num(0)
  /\ result.value[4].status = "Critical"

====
